---------------------------- MODULE Spec2Model ----------------------------
(***************************************************************************)
(* RomMate: the cartridge ROM verification engine                          *)
(* (src/core/cartridge_checker.py, class CartridgeChecker).                *)
(*                                                                         *)
(* Python strings are modelled as sequences of one-character strings, so   *)
(* that lower(), upper(), `in`, replace(), splitext() and rsplit() are     *)
(* computed character by character as the interpreter computes them.       *)
(* A Python dict is a sequence of entries in insertion order; assigning to *)
(* an existing key replaces the value and keeps the key's position.        *)
(* None is the empty sequence where the value is a string (both are falsy  *)
(* in the source's `if not x` tests) and the string "None" for a system.   *)
(***************************************************************************)
EXTENDS Integers, Sequences, FiniteSets, TLC

(***************************************************************************)
(* Bounds of the model                                                     *)
(***************************************************************************)
\* largest number of <game> records in one backing .dat file
MaxRecords == 2
\* largest number of files in the scanned folder
MaxFiles == 2
\* the longest sequence of direct load_database calls
MaxCalls == 3

(***************************************************************************)
(* Program constants                                                       *)
(***************************************************************************)
\* HEADER_SYSTEMS['snes']: length of the SMC copier header
SNES_HEADER == 512
\* HEADER_SYSTEMS['nes']: length of the iNES header
NES_HEADER == 16
\* has_external_header: SNES ROM sizes are multiples of this
SNES_BLOCK == 1024
\* verify_rom, LEVEL 3: largest accepted |file_size - expected_size|
SIZE_TOLERANCE == 512
\* verify_rom, LEVEL 2: digests that must agree
PARTIAL_THRESHOLD == 2

None == "None"

(***************************************************************************)
(* Strings                                                                 *)
(***************************************************************************)
UpperChars ==
  <<"A", "B", "C", "D", "E", "F", "G", "H", "I", "J", "K", "L", "M",
    "N", "O", "P", "Q", "R", "S", "T", "U", "V", "W", "X", "Y", "Z">>
LowerChars ==
  <<"a", "b", "c", "d", "e", "f", "g", "h", "i", "j", "k", "l", "m",
    "n", "o", "p", "q", "r", "s", "t", "u", "v", "w", "x", "y", "z">>
DigitChars == <<"0", "1", "2", "3", "4", "5", "6", "7", "8", "9">>
HexChars ==
  <<"0", "1", "2", "3", "4", "5", "6", "7", "8", "9",
    "a", "b", "c", "d", "e", "f">>

\* position of character c in the table t, 0 when it is not there
IndexOf(t, c) ==
  IF \E i \in 1..Len(t) : t[i] = c
    THEN CHOOSE i \in 1..Len(t) : t[i] = c
    ELSE 0

\* the function f with domain 1..n as an explicit sequence
AsSeq(f) == SubSeq(f, 1, Len(f))

\* str.lower()
Lower(s) ==
  AsSeq([i \in 1..Len(s) |->
           IF IndexOf(UpperChars, s[i]) > 0
             THEN LowerChars[IndexOf(UpperChars, s[i])]
             ELSE s[i]])

\* str.upper()
Upper(s) ==
  AsSeq([i \in 1..Len(s) |->
           IF IndexOf(LowerChars, s[i]) > 0
             THEN UpperChars[IndexOf(LowerChars, s[i])]
             ELSE s[i]])

\* pat occurs in s at position i
OccursAt(s, pat, i) ==
  /\ i >= 1
  /\ i + Len(pat) - 1 <= Len(s)
  /\ SubSeq(s, i, i + Len(pat) - 1) = pat

\* `pat in s`
Contains(s, pat) == \E i \in 1..(Len(s) + 1) : OccursAt(s, pat, i)

\* s.replace(pat, ''): every non-overlapping occurrence, left to right
RECURSIVE Remove(_, _)
Remove(s, pat) ==
  IF Len(s) = 0 \/ Len(pat) = 0 THEN s
  ELSE IF OccursAt(s, pat, 1)
    THEN Remove(SubSeq(s, Len(pat) + 1, Len(s)), pat)
    ELSE <<s[1]>> \o Remove(Tail(s), pat)

\* the patterns of a list removed one after the other, in list order
RECURSIVE RemoveAll(_, _)
RemoveAll(s, pats) ==
  IF pats = <<>> THEN s
  ELSE RemoveAll(Remove(s, Head(pats)), Tail(pats))

\* index of the last "." of s, 0 when there is none
LastDot(s) ==
  IF \E i \in 1..Len(s) : s[i] = "."
    THEN CHOOSE i \in 1..Len(s) :
           s[i] = "." /\ \A j \in (i + 1)..Len(s) : s[j] # "."
    ELSE 0

\* os.path.splitext(name)[1] for a name without directory part:
\* the suffix from the last dot, empty when the name has no dot or only
\* leading dots before it
splitext(name) ==
  LET d == LastDot(name) IN
    IF d = 0 \/ (\A i \in 1..(d - 1) : name[i] = ".")
      THEN <<>>
      ELSE SubSeq(name, d, Len(name))

\* s.rsplit('.', 1)[0]
rsplit_dot(s) ==
  LET d == LastDot(s) IN
    IF d = 0 THEN s ELSE SubSeq(s, 1, d - 1)

\* int(s) for a decimal string: [ok, value]; ok is FALSE where int() raises
\* ValueError (the empty string, a non-digit character)
RECURSIVE DecimalValue(_)
DecimalValue(s) ==
  IF s = <<>> THEN 0
  ELSE 10 * DecimalValue(SubSeq(s, 1, Len(s) - 1))
         + (IndexOf(DigitChars, s[Len(s)]) - 1)

ParseInt(s) ==
  IF s # <<>> /\ \A i \in 1..Len(s) : IndexOf(DigitChars, s[i]) > 0
    THEN [ok |-> TRUE, value |-> DecimalValue(s)]
    ELSE [ok |-> FALSE, value |-> 0]

\* format(n, '0<width>x'): lowercase hexadecimal, zero padded
RECURSIVE HexDigits(_, _)
HexDigits(n, width) ==
  IF width <= 0 /\ n = 0 THEN <<>>
  ELSE HexDigits(n \div 16, width - 1) \o <<HexChars[(n % 16) + 1]>>

\* XML attribute access: an attribute is <<>> when absent and <<value>>
\* when present; element.get(attr, default)
Get(attr, default) == IF attr = <<>> THEN default ELSE attr[1]

(***************************************************************************)
(* Tables of CartridgeChecker                                              *)
(***************************************************************************)
SYSTEM_EXTENSIONS ==
  <<
    <<"nes", << <<".", "n", "e", "s">>, <<".", "u", "n", "f">>, <<".", "u", "n", "i", "f">> >> >>,
    <<"snes", << <<".", "s", "f", "c">>, <<".", "s", "m", "c">> >> >>,
    <<"n64", << <<".", "n", "6", "4">>, <<".", "z", "6", "4">>, <<".", "v", "6", "4">> >> >>,
    <<"gb", << <<".", "g", "b">> >> >>,
    <<"gbc", << <<".", "g", "b", "c">> >> >>,
    <<"gba", << <<".", "g", "b", "a">> >> >>,
    <<"nds", << <<".", "n", "d", "s">> >> >>,
    <<"3ds", << <<".", "3", "d", "s">>, <<".", "c", "c", "i">>, <<".", "c", "i", "a">> >> >>,
    <<"genesis", << <<".", "g", "e", "n">>, <<".", "m", "d">>, <<".", "s", "m", "d">> >> >>,
    <<"sms", << <<".", "s", "m", "s">> >> >>,
    <<"gamegear", << <<".", "g", "g">> >> >>,
    <<"sega32x", << <<".", "3", "2", "x">> >> >>,
    <<"a2600", << <<".", "a", "2", "6">> >> >>,
    <<"a7800", << <<".", "a", "7", "8">> >> >>,
    <<"pce", << <<".", "p", "c", "e">> >> >>,
    <<"ngp", << <<".", "n", "g", "p">>, <<".", "n", "g", "c">> >> >>,
    <<"ws", << <<".", "w", "s">>, <<".", "w", "s", "c">> >> >>,
    <<"ps1", << <<".", "b", "i", "n">>, <<".", "i", "m", "g">>, <<".", "i", "s", "o">> >> >>,
    <<"ps2", << <<".", "i", "s", "o">> >> >>,
    <<"ps3", << <<".", "i", "s", "o">> >> >>,
    <<"psp", << <<".", "i", "s", "o">>, <<".", "c", "s", "o">> >> >>,
    <<"gamecube", << <<".", "i", "s", "o">>, <<".", "g", "c", "m">>, <<".", "g", "c", "z">> >> >>,
    <<"wii", << <<".", "i", "s", "o">>, <<".", "w", "b", "f", "s">> >> >>,
    <<"xbox", << <<".", "i", "s", "o">> >> >>,
    <<"xbox360", << <<".", "i", "s", "o">> >> >>,
    <<"saturn", << <<".", "b", "i", "n">>, <<".", "i", "s", "o">> >> >>,
    <<"dreamcast", << <<".", "c", "d", "i">>, <<".", "g", "d", "i">> >> >>,
    <<"segacd", << <<".", "b", "i", "n">>, <<".", "i", "s", "o">> >> >>,
    <<"neogeocd", << <<".", "b", "i", "n">>, <<".", "i", "s", "o">> >> >>
  >>

REDUMP_SYSTEMS ==
  { "ps1", "ps2", "ps3", "psp", "gamecube", "wii",
    "xbox", "xbox360", "saturn", "dreamcast", "segacd", "neogeocd" }

\* the system identifiers, i.e. the keys of SYSTEM_EXTENSIONS
Systems == { SYSTEM_EXTENSIONS[i][1] : i \in 1..Len(SYSTEM_EXTENSIONS) }

\* HEADER_SYSTEMS: the systems not listed are absent from the dict
HEADER_SYSTEMS ==
  [s \in {"snes", "nes", "n64", "gb", "gbc", "gba"} |->
     IF s = "snes" THEN SNES_HEADER
     ELSE IF s = "nes" THEN NES_HEADER
     ELSE 0]

\* the iNES signature b'NES\x1a' (the last byte written as ^Z)
INES_MAGIC == <<"N", "E", "S", "^Z">>

translation_patterns ==
  <<
    <<"[", "t", "+">>,
    <<"[", "t", "-">>,
    <<"(", "t", "+">>,
    <<"(", "t", "-">>,
    <<"t", "r", "a", "n", "s", "l", "a", "t", "i", "o", "n">>,
    <<"t", "r", "a", "n", "s", "l", "a", "t", "e", "d">> >>

hack_patterns ==
  <<
    <<"[", "h", "a", "c", "k", "]">>,
    <<"[", "h", "]">>,
    <<"(", "h", "a", "c", "k", ")">>,
    <<"(", "h", ")">>,
    <<"i", "m", "p", "r", "o", "v", "e", "d">>,
    <<"e", "n", "h", "a", "n", "c", "e", "d">>,
    <<"r", "e", "d", "u", "x">>,
    <<"r", "e", "m", "a", "s", "t", "e", "r", "e", "d">>,
    <<"f", "i", "x", "e", "d">>,
    <<"b", "u", "g", "f", "i", "x">>,
    <<"d", "i", "f", "f", "i", "c", "u", "l", "t", "y">>,
    <<"h", "a", "c", "k", " ", "b", "y">>,
    <<"r", "o", "m", " ", "h", "a", "c", "k">> >>

version_patterns ==
  <<
    <<"v", "1", ".">>,
    <<"v", "2", ".">>,
    <<"v", "3", ".">>,
    <<"v", "4", ".">>,
    <<"v", "5", ".">>,
    <<"b", "e", "t", "a">>,
    <<"a", "l", "p", "h", "a">>,
    <<"d", "e", "m", "o">>,
    <<"p", "r", "o", "t", "o">>,
    <<"p", "r", "e", "v", "i", "e", "w">>,
    <<"t", "e", "s", "t">> >>

\* the region and revision tokens fuzzy_name_match removes
fuzzy_patterns ==
  <<
    <<"(", "u", "s", "a", ")">>,
    <<"(", "e", "u", "r", "o", "p", "e", ")">>,
    <<"(", "j", "a", "p", "a", "n", ")">>,
    <<"(", "w", "o", "r", "l", "d", ")">>,
    <<"[", "!", "]">>,
    <<"[", "a", "]">>,
    <<"[", "b", "]">>,
    <<"(", "r", "e", "v", " ">>,
    <<"(", "v", "1", ".">> >>

(***************************************************************************)
(* detect_system                                                           *)
(***************************************************************************)
\* ext in extensions
InList(list, x) == \E i \in 1..Len(list) : list[i] = x

\* detect_system returning the last system of the table that lists the
\* extension
detect_system_last(rom_file) ==
  LET ext == Lower(splitext(rom_file.name))
      hits == { i \in 1..Len(SYSTEM_EXTENSIONS) :
                  InList(SYSTEM_EXTENSIONS[i][2], ext) }
  IN IF hits = {} THEN None
     ELSE SYSTEM_EXTENSIONS[CHOOSE i \in hits : \A j \in hits : i >= j][1]

\* the first system, in table order, whose extension list holds the
\* lowercased extension of the file; None when there is none
detect_system(rom_file) ==
  LET ext == Lower(splitext(rom_file.name))
      hits == { i \in 1..Len(SYSTEM_EXTENSIONS) :
                  InList(SYSTEM_EXTENSIONS[i][2], ext) }
  IN IF hits = {} THEN None
     ELSE SYSTEM_EXTENSIONS[CHOOSE i \in hits : \A j \in hits : i <= j][1]

(***************************************************************************)
(* detect_rom_hack                                                         *)
(***************************************************************************)
AnyPattern(pats, s) == \E i \in 1..Len(pats) : Contains(s, pats[i])

\* detect_rom_hack looking for the hack markers before the translation
\* markers
detect_rom_hack_hack_first(filename) ==
  LET filename_lower == Lower(filename) IN
    IF AnyPattern(hack_patterns, filename_lower)
      THEN <<TRUE, "hack", "90%">>
    ELSE IF AnyPattern(translation_patterns, filename_lower)
      THEN <<TRUE, "translation", "95%">>
    ELSE IF /\ AnyPattern(version_patterns, filename_lower)
            /\ ~Contains(filename_lower, <<"r", "e", "v">>)
            /\ ~Contains(filename_lower,
                         <<"p", "r", "o", "t", "o", "t", "y", "p", "e">>)
      THEN <<TRUE, "modified", "80%">>
    ELSE <<FALSE, None, None>>

\* (is_hack, hack_type, confidence)
detect_rom_hack(filename) ==
  LET filename_lower == Lower(filename) IN
    IF AnyPattern(translation_patterns, filename_lower)
      THEN <<TRUE, "translation", "95%">>
    ELSE IF AnyPattern(hack_patterns, filename_lower)
      THEN <<TRUE, "hack", "90%">>
    ELSE IF /\ AnyPattern(version_patterns, filename_lower)
            /\ ~Contains(filename_lower, <<"r", "e", "v">>)
            /\ ~Contains(filename_lower,
                         <<"p", "r", "o", "t", "o", "t", "y", "p", "e">>)
      THEN <<TRUE, "modified", "80%">>
    ELSE <<FALSE, None, None>>

(***************************************************************************)
(* fuzzy_name_match: difflib.SequenceMatcher(None, a, b).ratio()           *)
(***************************************************************************)
\* length of the longest common run of a from i and b from j that stays
\* inside a[..ahi] and b[..bhi]
RECURSIVE RunLength(_, _, _, _, _, _)
RunLength(a, b, i, j, ahi, bhi) ==
  IF i > ahi \/ j > bhi \/ a[i] # b[j] THEN 0
  ELSE 1 + RunLength(a, b, i + 1, j + 1, ahi, bhi)

\* the scan of SequenceMatcher.find_longest_match: for a fixed i the j
\* ascending from j on, then the i ascending from i on; best = <<besti,
\* bestj, bestsize>> is replaced only by a strictly longer block
RECURSIVE longest_in_row(_, _, _, _, _, _, _)
longest_in_row(a, b, i, j, ahi, bhi, best) ==
  IF j > bhi THEN best
  ELSE IF RunLength(a, b, i, j, ahi, bhi) > best[3]
    THEN longest_in_row(a, b, i, j + 1, ahi, bhi,
                        <<i, j, RunLength(a, b, i, j, ahi, bhi)>>)
    ELSE longest_in_row(a, b, i, j + 1, ahi, bhi, best)

\* no block is longer than ahi: the second test never holds, it only makes
\* the evaluator compute best before it goes on to the next row
RECURSIVE longest_from(_, _, _, _, _, _, _)
longest_from(a, b, i, ahi, blo, bhi, best) ==
  IF i > ahi \/ best[3] > ahi THEN best
  ELSE longest_from(a, b, i + 1, ahi, blo, bhi,
                    longest_in_row(a, b, i, blo, ahi, bhi, best))

\* SequenceMatcher.find_longest_match on a[alo..ahi], b[blo..bhi]: the
\* longest matching block; among the longest the one starting earliest in
\* a and, among those, earliest in b
find_longest_match(a, b, alo, ahi, blo, bhi) ==
  longest_from(a, b, alo, ahi, blo, bhi, <<alo, blo, 0>>)

\* sum of the sizes of SequenceMatcher.get_matching_blocks: the longest
\* block, then recursively the pieces to its left and to its right
RECURSIVE matching_total(_, _, _, _, _, _)
matching_total(a, b, alo, ahi, blo, bhi) ==
  IF alo > ahi \/ blo > bhi THEN 0
  ELSE LET m == find_longest_match(a, b, alo, ahi, blo, bhi) IN
    IF m[3] = 0 THEN 0
    ELSE m[3]
         + matching_total(a, b, alo, m[1] - 1, blo, m[2] - 1)
         + matching_total(a, b, m[1] + m[3], ahi, m[2] + m[3], bhi)

\* ratio() = 2.0 * matches / (len(a) + len(b)), 1.0 for two empty strings;
\* kept as the exact fraction <<numerator, denominator>>
ratio(a, b) ==
  IF Len(a) + Len(b) = 0 THEN <<1, 1>>
  ELSE <<2 * matching_total(a, b, 1, Len(a), 1, Len(b)), Len(a) + Len(b)>>

\* the similarity of a file name and a catalog name, as a fraction
fuzzy_name_match(filename, database_name) ==
  LET file_clean == RemoveAll(rsplit_dot(Lower(filename)), fuzzy_patterns)
      db_clean == RemoveAll(Lower(database_name), fuzzy_patterns)
  IN ratio(file_clean, db_clean)

\* comparisons of fractions with positive denominators
FracGE(x, y) == x[1] * y[2] >= y[1] * x[2]
FracGT(x, y) == x[1] * y[2] > y[1] * x[2]

\* the thresholds 0.8 (LEVEL 3) and 0.7 (LEVEL 4)
LIKELY_THRESHOLD == <<8, 10>>
NAME_THRESHOLD == <<7, 10>>

(***************************************************************************)
(* Files and backing .dat files                                            *)
(*                                                                         *)
(* A file of the scanned folder is a record                                *)
(*   name    its base name                                                 *)
(*   size    os.path.getsize                                               *)
(*   access  "ok"; "denied": stat succeeds, open() fails; "missing": the   *)
(*           file is gone, stat and open() fail                            *)
(*   head    its first four bytes                                          *)
(*   sums    for each skip offset the digests of the bytes from that       *)
(*           offset on: crc (zlib.crc32, a number), md5 and sha1           *)
(*           (hexdigest(), lowercase hexadecimal)                          *)
(* A backing file is [state, games]: state is "absent", "malformed" (not   *)
(* well-formed XML) or "ok"; a game is [name, roms], a rom is              *)
(* [crc, size, md5, sha1], every attribute <<>> or <<value>>.              *)
(***************************************************************************)
\* the skip offsets calculate_checksums is called with
SkipOffsets == {0, NES_HEADER, SNES_HEADER}

\* (crc32_hex, md5_hex, sha1_hex), (None, None, None) when open() or
\* read() fails
calculate_checksums(rom_file, skip_bytes) ==
  IF rom_file.access # "ok" THEN << <<>>, <<>>, <<>> >>
  ELSE LET d == rom_file.sums[skip_bytes] IN
    << Upper(HexDigits(d.crc, 8)), Upper(d.md5), Upper(d.sha1) >>

\* database[key] = entry on a dict kept as a sequence in insertion order
DictSet(database, key, entry) ==
  IF \E i \in 1..Len(database) : database[i].crc = key
    THEN AsSeq([i \in 1..Len(database) |->
                  IF database[i].crc = key THEN entry ELSE database[i]])
    ELSE Append(database, entry)

\* the inner loop of load_database: the <rom> records of one <game>
RECURSIVE index_roms(_, _, _)
index_roms(database, game_name, roms) ==
  IF roms = <<>> THEN database
  ELSE LET rom == Head(roms)
           crc == Upper(Get(rom.crc, <<>>))
           entry == [crc  |-> crc,
                     name |-> game_name,
                     size |-> Get(rom.size, <<"0">>),
                     md5  |-> Upper(Get(rom.md5, <<>>)),
                     sha1 |-> Upper(Get(rom.sha1, <<>>))]
       IN index_roms(IF crc # <<>> THEN DictSet(database, crc, entry)
                                   ELSE database,
                     game_name, Tail(roms))

\* the outer loop of load_database: the <game> records of the document
RECURSIVE index_games(_, _)
index_games(database, games) ==
  IF games = <<>> THEN database
  ELSE index_games(
         index_roms(database,
                    Get(Head(games).name,
                        <<"U", "n", "k", "n", "o", "w", "n">>),
                    Head(games).roms),
         Tail(games))

\* load_database caching the dict before the parse has filled it, as a copy
load_database_caches_empty(system, dbs, dats) ==
  IF system \in DOMAIN dbs
    THEN [database |-> dbs[system], databases |-> dbs, io |-> <<>>]
  ELSE IF dats[system].state = "absent"
    THEN [database |-> <<>>, databases |-> dbs, io |-> <<"exists">>]
  ELSE IF dats[system].state = "malformed"
    THEN [database |-> <<>>, databases |-> dbs,
          io |-> <<"exists", "parse">>]
  ELSE LET database == index_games(<<>>, dats[system].games) IN
    [database |-> database,
     databases |-> (system :> <<>>) @@ dbs,
     io |-> <<"exists", "parse">>]

\* load_database(system) on the cache dbs and the backing files dats:
\* [database: the catalog returned, databases: the cache afterwards,
\*  io: the file operations performed]
load_database(system, dbs, dats) ==
  IF system \in DOMAIN dbs
    THEN [database |-> dbs[system], databases |-> dbs, io |-> <<>>]
  ELSE IF dats[system].state = "absent"
    THEN [database |-> <<>>, databases |-> dbs, io |-> <<"exists">>]
  ELSE IF dats[system].state = "malformed"
    THEN [database |-> <<>>, databases |-> dbs,
          io |-> <<"exists", "parse">>]
  ELSE LET database == index_games(<<>>, dats[system].games) IN
    [database |-> database,
     databases |-> (system :> database) @@ dbs,
     io |-> <<"exists", "parse">>]

\* has_external_header taking any SNES size that is no multiple of 1024 for
\* a file with a header
has_external_header_any_remainder(rom_file, system) ==
  IF system \notin DOMAIN HEADER_SYSTEMS
    THEN [value |-> "False", io |-> <<>>]
  ELSE IF HEADER_SYSTEMS[system] = 0
    THEN [value |-> "False", io |-> <<>>]
  ELSE IF rom_file.access = "missing"
    THEN [value |-> "raise", io |-> <<"getsize">>]
  ELSE IF system = "snes"
    THEN [value |-> IF rom_file.size % SNES_BLOCK # 0
                      THEN "True" ELSE "False",
          io |-> <<"getsize">>]
  ELSE IF system = "nes"
    THEN [value |-> IF rom_file.access = "ok" /\ rom_file.head = INES_MAGIC
                      THEN "True" ELSE "False",
          io |-> <<"getsize", "read_head">>]
  ELSE [value |-> "False", io |-> <<"getsize">>]

\* has_external_header(rom_file, system): [value, io]; value is "raise"
\* when os.path.getsize raises
has_external_header(rom_file, system) ==
  IF system \notin DOMAIN HEADER_SYSTEMS
    THEN [value |-> "False", io |-> <<>>]
  ELSE IF HEADER_SYSTEMS[system] = 0
    THEN [value |-> "False", io |-> <<>>]
  ELSE IF rom_file.access = "missing"
    THEN [value |-> "raise", io |-> <<"getsize">>]
  ELSE IF system = "snes"
    THEN [value |-> IF rom_file.size % SNES_BLOCK = SNES_HEADER
                      THEN "True" ELSE "False",
          io |-> <<"getsize">>]
  ELSE IF system = "nes"
    THEN [value |-> IF rom_file.access = "ok" /\ rom_file.head = INES_MAGIC
                      THEN "True" ELSE "False",
          io |-> <<"getsize", "read_head">>]
  ELSE [value |-> "False", io |-> <<"getsize">>]

(***************************************************************************)
(* The names the model draws files and catalog records from                *)
(***************************************************************************)
F_GameUSA == <<"G", "a", "m", "e", " ", "(", "U", "S", "A", ")", ".", "s", "f", "c">>
F_Translation == <<"G", "a", "m", "e", " ", "[", "T", "+", "E", "n", "g", "]", ".", "s", "f", "c">>
F_Hack == <<"G", "a", "m", "e", " ", "(", "H", "a", "c", "k", ")", ".", "s", "m", "c">>
F_Version == <<"G", "a", "m", "e", " ", "v", "1", ".", "1", ".", "s", "f", "c">>
F_Nes == <<"G", "a", "m", "e", ".", "n", "e", "s">>
F_Text == <<"G", "a", "m", "e", ".", "t", "x", "t">>
F_Gb == <<"G", "a", "m", "e", ".", "g", "b">>
F_Other == <<"O", "t", "h", "e", "r", ".", "s", "f", "c">>

N_GameUSA == <<"G", "a", "m", "e", " ", "(", "U", "S", "A", ")">>
N_GameEurope == <<"G", "a", "m", "e", " ", "(", "E", "u", "r", "o", "p", "e", ")">>
N_GameJapan == <<"G", "a", "m", "e", " ", "(", "J", "a", "p", "a", "n", ")">>
N_GameWorld == <<"G", "a", "m", "e", " ", "(", "W", "o", "r", "l", "d", ")">>
N_GameII == <<"G", "a", "m", "e", " ", "I", "I">>
N_GameBoy == <<"G", "a", "m", "e", " ", "B", "o", "y">>
N_OtherTitle == <<"O", "t", "h", "e", "r", " ", "T", "i", "t", "l", "e">>
N_Unknown == <<"U", "n", "k", "n", "o", "w", "n">>

\* the file names and the catalog names of the model
FileNameSeq ==
  << F_GameUSA, F_Translation, F_Hack, F_Version, F_Nes, F_Text, F_Gb,
     F_Other >>
GameNameSeq ==
  << N_GameUSA, N_GameEurope, N_GameJapan, N_GameWorld, N_GameII,
     N_GameBoy, N_OtherTitle, N_Unknown >>
FileNames == { FileNameSeq[i] : i \in 1..Len(FileNameSeq) }
GameNames == { GameNameSeq[i] : i \in 1..Len(GameNameSeq) }

\* fuzzy_name_match of every file name and catalog name of the model,
\* computed once: row by row, one row per file name
SimilarityTable ==
  AsSeq([k \in 1..(Len(FileNameSeq) * Len(GameNameSeq)) |->
           fuzzy_name_match(
             FileNameSeq[((k - 1) \div Len(GameNameSeq)) + 1],
             GameNameSeq[((k - 1) % Len(GameNameSeq)) + 1])])

\* self.fuzzy_name_match(filename, entry['name']): looked up in the table
\* for the names of the model, computed for any other name
similarity(filename, database_name) ==
  LET f == IndexOf(FileNameSeq, filename)
      g == IndexOf(GameNameSeq, database_name)
  IN IF f > 0 /\ g > 0
       THEN SimilarityTable[(f - 1) * Len(GameNameSeq) + g]
       ELSE fuzzy_name_match(filename, database_name)

(***************************************************************************)
(* verify_rom                                                              *)
(*                                                                         *)
(* Every tier yields an outcome [kind, value, io]: kind "return" with the  *)
(* result dict as value, kind "raise" with the exception as value, or kind *)
(* "none" when the tier falls through to the next one.  io lists the file  *)
(* operations the tier performed.  Messages are kept as the source's text  *)
(* without its pictographs; the similarity a message quotes is kept as the *)
(* fraction instead of int(similarity * 100).                              *)
(***************************************************************************)
NoVerdict(ops) == [kind |-> "none", value |-> <<>>, io |-> ops]
Return(result, ops) == [kind |-> "return", value |-> result, io |-> ops]
Raise(exception, ops) == [kind |-> "raise", value |-> exception, io |-> ops]

\* the names of the entries, in iteration order, that satisfy Test
MatchedNames(database, Test(_)) ==
  LET hits == SelectSeq(database, Test)
  IN AsSeq([i \in 1..Len(hits) |-> hits[i].name])

\* exact_matches without the size test of line 370
exact_matches_crc_only(database, crc32, file_size) ==
  MatchedNames(database, LAMBDA entry : crc32 = entry.crc)

\* LEVEL 1, lines 366-371: the names of the entries with the file's crc32
\* and the file's size
exact_matches(database, crc32, file_size) ==
  MatchedNames(database,
    LAMBDA entry : /\ crc32 = entry.crc
                   /\ ParseInt(entry.size).value = file_size)

\* LEVEL 1, lines 364-394
level1(filename, system, database, crc32, file_size) ==
  IF \E i \in 1..Len(database) :
       crc32 = database[i].crc /\ ~ParseInt(database[i].size).ok
    THEN Raise("ValueError", <<>>)
  ELSE LET all_matches == exact_matches(database, crc32, file_size) IN
    IF all_matches = <<>> THEN NoVerdict(<<>>)
    ELSE IF Len(all_matches) > 1
      THEN Return([status |-> "verified",
                   message |-> "Verified Good Dump",
                   filename |-> filename,
                   system |-> system,
                   game_name |-> all_matches[1],
                   all_regions |-> all_matches,
                   crc32 |-> crc32,
                   confidence |-> "100%"], <<>>)
      ELSE Return([status |-> "verified",
                   message |-> "Verified Good Dump",
                   filename |-> filename,
                   system |-> system,
                   game_name |-> all_matches[1],
                   crc32 |-> crc32,
                   confidence |-> "100%"], <<>>)

\* lines 402-405: the names of the entries with the header-stripped crc32
header_matches(database, crc32_clean) ==
  MatchedNames(database, LAMBDA entry : crc32_clean = entry.crc)

\* header_tier trying the header-stripped checksum for every file of a
\* system that has a header size, whatever has_external_header reports
header_tier_unconditional(rom_file, filename, system, database) ==
  IF system \notin DOMAIN HEADER_SYSTEMS THEN NoVerdict(<<>>)
  ELSE IF HEADER_SYSTEMS[system] = 0 THEN NoVerdict(<<>>)
  ELSE LET header_size == HEADER_SYSTEMS[system]
           crc32_clean == calculate_checksums(rom_file, header_size)[1]
           all_matches_clean == header_matches(database, crc32_clean)
       IN IF all_matches_clean = <<>> THEN NoVerdict(<<"read_skip">>)
          ELSE Return([status |-> "has_header",
                       message |-> "Has External Header (fixable)",
                       filename |-> filename,
                       system |-> system,
                       game_name |-> all_matches_clean[1],
                       crc32 |-> crc32_clean,
                       header_size |-> header_size,
                       confidence |-> "100%"], <<"read_skip">>)

\* the header-stripped tier, lines 396-430
header_tier(rom_file, filename, system, database) ==
  LET suspected == has_external_header(rom_file, system) IN
    IF suspected.value = "raise"
      THEN Raise("FileNotFoundError", suspected.io)
    ELSE IF suspected.value = "False" THEN NoVerdict(suspected.io)
    ELSE LET header_size == HEADER_SYSTEMS[system]
             crc32_clean == calculate_checksums(rom_file, header_size)[1]
             all_matches_clean == header_matches(database, crc32_clean)
             ops == suspected.io \o <<"read_skip">>
         IN IF all_matches_clean = <<>> THEN NoVerdict(ops)
            ELSE IF Len(all_matches_clean) > 1
              THEN Return([status |-> "has_header",
                           message |-> "Has External Header (fixable)",
                           filename |-> filename,
                           system |-> system,
                           game_name |-> all_matches_clean[1],
                           all_regions |-> all_matches_clean,
                           crc32 |-> crc32_clean,
                           header_size |-> header_size,
                           confidence |-> "100%"], ops)
              ELSE Return([status |-> "has_header",
                           message |-> "Has External Header (fixable)",
                           filename |-> filename,
                           system |-> system,
                           game_name |-> all_matches_clean[1],
                           crc32 |-> crc32_clean,
                           header_size |-> header_size,
                           confidence |-> "100%"], ops)

\* lines 434-440: how many of the three digests agree with an entry
digest_matches(entry, sums) ==
  (IF sums[1] = entry.crc THEN 1 ELSE 0)
  + (IF sums[2] # <<>> /\ sums[2] = entry.md5 THEN 1 ELSE 0)
  + (IF sums[3] # <<>> /\ sums[3] = entry.sha1 THEN 1 ELSE 0)

\* level2 searching the whole catalog for the entry with the most agreeing
\* digests
level2_best_count(filename, system, database, sums) ==
  LET hits == { i \in 1..Len(database) :
                  digest_matches(database[i], sums) >= PARTIAL_THRESHOLD }
  IN IF hits = {} THEN NoVerdict(<<>>)
     ELSE LET entry ==
                database[CHOOSE i \in hits :
                           \A j \in hits :
                             \/ digest_matches(database[i], sums)
                                  > digest_matches(database[j], sums)
                             \/ /\ digest_matches(database[i], sums)
                                     = digest_matches(database[j], sums)
                                /\ i <= j]
          IN Return([status |-> "probable",
                     message |-> <<"Probable Good Dump",
                                   digest_matches(entry, sums),
                                   "/3 checksums match">>,
                     filename |-> filename,
                     system |-> system,
                     game_name |-> entry.name,
                     confidence |-> "99%"], <<>>)

\* LEVEL 2, lines 432-450: the first entry with two or more agreeing digests
level2(filename, system, database, sums) ==
  LET hits == { i \in 1..Len(database) :
                  digest_matches(database[i], sums) >= PARTIAL_THRESHOLD }
  IN IF hits = {} THEN NoVerdict(<<>>)
     ELSE LET entry == database[CHOOSE i \in hits : \A j \in hits : i <= j]
          IN Return([status |-> "probable",
                     message |-> <<"Probable Good Dump",
                                   digest_matches(entry, sums),
                                   "/3 checksums match">>,
                     filename |-> filename,
                     system |-> system,
                     game_name |-> entry.name,
                     confidence |-> "99%"], <<>>)

\* |file_size - expected_size|
size_diff(file_size, expected_size) ==
  IF file_size >= expected_size THEN file_size - expected_size
  ELSE expected_size - file_size

\* the loop of LEVEL 3, lines 456-468, from entry i on: <<best_match,
\* best_similarity>>, best_match the index of the entry and 0 for None
RECURSIVE best_fuzzy(_, _, _, _, _, _)
best_fuzzy(database, i, filename, file_size, best_match, best_similarity) ==
  IF i > Len(database) THEN <<best_match, best_similarity>>
  ELSE LET entry == database[i]
           expected_size == ParseInt(entry.size).value
           sim == similarity(filename, entry.name)
       IN IF /\ size_diff(file_size, expected_size) <= SIZE_TOLERANCE
             /\ FracGT(sim, best_similarity)
             /\ FracGE(sim, LIKELY_THRESHOLD)
            THEN best_fuzzy(database, i + 1, filename, file_size, i, sim)
            ELSE best_fuzzy(database, i + 1, filename, file_size,
                            best_match, best_similarity)

\* level3 reporting the first entry within the size tolerance whose name
\* reaches the threshold, without looking for a better one
level3_first_hit(filename, system, database, file_size) ==
  IF \E i \in 1..Len(database) : ~ParseInt(database[i].size).ok
    THEN Raise("ValueError", <<>>)
  ELSE LET hits == { i \in 1..Len(database) :
                       /\ size_diff(file_size,
                                    ParseInt(database[i].size).value)
                            <= SIZE_TOLERANCE
                       /\ FracGE(similarity(filename, database[i].name),
                                 LIKELY_THRESHOLD) }
       IN IF hits = {} THEN NoVerdict(<<>>)
          ELSE LET i == CHOOSE i \in hits : \A j \in hits : i <= j
               IN Return([status |-> "likely",
                          message |-> <<"Likely Match - Name & Size Match",
                                        similarity(filename,
                                                   database[i].name)>>,
                          filename |-> filename,
                          system |-> system,
                          game_name |-> database[i].name,
                          confidence |-> "95%"], <<>>)

\* LEVEL 3, lines 452-478
level3(filename, system, database, file_size) ==
  IF \E i \in 1..Len(database) : ~ParseInt(database[i].size).ok
    THEN Raise("ValueError", <<>>)
  ELSE LET best == best_fuzzy(database, 1, filename, file_size, 0, <<0, 1>>)
       IN IF best[1] = 0 THEN NoVerdict(<<>>)
          ELSE Return([status |-> "likely",
                       message |-> <<"Likely Match - Name & Size Match",
                                     best[2]>>,
                       filename |-> filename,
                       system |-> system,
                       game_name |-> database[best[1]].name,
                       confidence |-> "95%"], <<>>)

\* level4 reporting the most similar entry instead of the first that
\* reaches the threshold
level4_best(filename, system, database) ==
  LET hits == { i \in 1..Len(database) :
                  FracGE(similarity(filename, database[i].name),
                         NAME_THRESHOLD) }
  IN IF hits = {} THEN NoVerdict(<<>>)
     ELSE LET entry ==
                database[CHOOSE i \in hits :
                           \A j \in hits :
                             \/ FracGT(similarity(filename, database[i].name),
                                       similarity(filename, database[j].name))
                             \/ /\ similarity(filename, database[i].name)
                                     = similarity(filename, database[j].name)
                                /\ i <= j]
          IN Return([status |-> "name_match",
                     message |-> <<"Name Match - Checksum Differs",
                                   similarity(filename, entry.name)>>,
                     filename |-> filename,
                     system |-> system,
                     game_name |-> entry.name,
                     confidence |-> "80%"], <<>>)

\* LEVEL 4, lines 480-491: the first entry whose name is similar enough
level4(filename, system, database) ==
  LET hits == { i \in 1..Len(database) :
                  FracGE(similarity(filename, database[i].name),
                         NAME_THRESHOLD) }
  IN IF hits = {} THEN NoVerdict(<<>>)
     ELSE LET entry == database[CHOOSE i \in hits : \A j \in hits : i <= j]
          IN Return([status |-> "name_match",
                     message |-> <<"Name Match - Checksum Differs",
                                   similarity(filename, entry.name)>>,
                     filename |-> filename,
                     system |-> system,
                     game_name |-> entry.name,
                     confidence |-> "80%"], <<>>)

\* level5 leaving the computed crc32 out of the result
level5_without_crc(filename, system, crc32) ==
  Return([status |-> "unknown",
          message |-> "Unknown ROM (not in database)",
          filename |-> filename,
          system |-> system], <<>>)

\* LEVEL 5, lines 493-500
level5(filename, system, crc32) ==
  Return([status |-> "unknown",
          message |-> "Unknown ROM (not in database)",
          filename |-> filename,
          system |-> system,
          crc32 |-> crc32], <<>>)

\* the outcome of the first tier, in the order given, that returns or
\* raises, with the file operations of the tiers run up to it
first_verdict(tiers) ==
  LET k == CHOOSE i \in 1..Len(tiers) :
             /\ tiers[i].kind # "none"
             /\ \A j \in 1..(i - 1) : tiers[j].kind = "none"
      RECURSIVE ops(_)
      ops(i) == IF i = 0 THEN <<>> ELSE ops(i - 1) \o tiers[i].io
  IN [kind |-> tiers[k].kind, value |-> tiers[k].value, io |-> ops(k)]

\* match_tiers with LEVEL 3 tried before LEVEL 2
match_tiers_swapped(rom_file, filename, system, database, file_size, sums) ==
  first_verdict(<<
    level1(filename, system, database, sums[1], file_size),
    header_tier(rom_file, filename, system, database),
    level3(filename, system, database, file_size),
    level2(filename, system, database, sums),
    level4(filename, system, database),
    level5(filename, system, sums[1]) >>)

\* lines 364-500: the tiers after the checksums are known, in source order
match_tiers(rom_file, filename, system, database, file_size, sums) ==
  first_verdict(<<
    level1(filename, system, database, sums[1], file_size),
    header_tier(rom_file, filename, system, database),
    level2(filename, system, database, sums),
    level3(filename, system, database, file_size),
    level4(filename, system, database),
    level5(filename, system, sums[1]) >>)

\* the hack short-circuit, lines 322-338; message is the label of the
\* hack type followed by " Detected"
hack_result(filename, system, hack) ==
  [status |-> "hack",
   message |-> IF hack[2] = "translation" THEN "Translation Patch Detected"
               ELSE IF hack[2] = "hack" THEN "ROM Hack Detected"
               ELSE IF hack[2] = "modified" THEN "Modified ROM Detected"
               ELSE "Modified Detected",
   filename |-> filename,
   system |-> system,
   hack_type |-> hack[2],
   confidence |-> hack[3]]

\* lookup_and_match going on to the checksums and the match tiers with an
\* empty catalog (without the test of line 343)
lookup_and_match_any_catalog(rom_file, filename, system, dbs, dats) ==
  LET loaded == load_database(system, dbs, dats)
      database == loaded.database
  IN IF rom_file.access = "missing"
       THEN [outcome |-> Raise("FileNotFoundError",
                               loaded.io \o <<"getsize">>),
             databases |-> loaded.databases]
     ELSE LET file_size == rom_file.size
              sums == calculate_checksums(rom_file, 0)
              ops == loaded.io \o <<"getsize", "read">>
          IN IF sums[1] = <<>>
               THEN [outcome |-> Return([status |-> "error",
                                         message |-> "Could not read ROM file",
                                         filename |-> filename,
                                         system |-> system], ops),
                     databases |-> loaded.databases]
             ELSE LET m == match_tiers(rom_file, filename, system, database,
                                       file_size, sums)
                  IN [outcome |-> [m EXCEPT !.io = ops \o m.io],
                      databases |-> loaded.databases]

\* lookup_and_match going on to the match tiers when the checksums could
\* not be computed (without the test of line 356)
lookup_and_match_unchecked(rom_file, filename, system, dbs, dats) ==
  LET loaded == load_database(system, dbs, dats)
      database == loaded.database
  IN IF database = <<>>
       THEN [outcome |-> Return([status |-> "no_database",
                                 message |-> <<"No database available for",
                                               system>>,
                                 filename |-> filename,
                                 system |-> system], loaded.io),
             databases |-> loaded.databases]
     ELSE IF rom_file.access = "missing"
       THEN [outcome |-> Raise("FileNotFoundError",
                               loaded.io \o <<"getsize">>),
             databases |-> loaded.databases]
     ELSE LET file_size == rom_file.size
              sums == calculate_checksums(rom_file, 0)
              ops == loaded.io \o <<"getsize", "read">>
              m == match_tiers(rom_file, filename, system, database,
                               file_size, sums)
          IN [outcome |-> [m EXCEPT !.io = ops \o m.io],
              databases |-> loaded.databases]

\* lines 340-500: catalog lookup, checksums and the match tiers
lookup_and_match(rom_file, filename, system, dbs, dats) ==
  LET loaded == load_database(system, dbs, dats)
      database == loaded.database
  IN IF database = <<>>
       THEN [outcome |-> Return([status |-> "no_database",
                                 message |-> <<"No database available for",
                                               system>>,
                                 filename |-> filename,
                                 system |-> system], loaded.io),
             databases |-> loaded.databases]
     ELSE IF rom_file.access = "missing"
       THEN [outcome |-> Raise("FileNotFoundError",
                               loaded.io \o <<"getsize">>),
             databases |-> loaded.databases]
     ELSE LET file_size == rom_file.size
              sums == calculate_checksums(rom_file, 0)
              ops == loaded.io \o <<"getsize", "read">>
          IN IF sums[1] = <<>>
               THEN [outcome |-> Return([status |-> "error",
                                         message |-> "Could not read ROM file",
                                         filename |-> filename,
                                         system |-> system], ops),
                     databases |-> loaded.databases]
             ELSE LET m == match_tiers(rom_file, filename, system, database,
                                       file_size, sums)
                  IN [outcome |-> [m EXCEPT !.io = ops \o m.io],
                      databases |-> loaded.databases]

\* verify_rom classifying the file name only after the catalog lookup and
\* the checksum computation, and only when the file is no exact match
verify_rom_lookup_first(rom_file, dbs, dats) ==
  LET filename == rom_file.name
      system == detect_system(rom_file)
      hack == detect_rom_hack(filename)
      looked == lookup_and_match(rom_file, filename, system, dbs, dats)
  IN IF system = None
       THEN [outcome |-> Return([status |-> "unknown",
                                 message |-> "Unknown file type",
                                 filename |-> filename,
                                 system |-> None], <<>>),
             databases |-> dbs]
     ELSE IF hack[1] /\ looked.outcome.kind = "return"
                     /\ looked.outcome.value.status # "verified"
       THEN [outcome |-> Return(hack_result(filename, system, hack),
                                looked.outcome.io),
             databases |-> looked.databases]
     ELSE looked

\* verify_rom(rom_file) with the cache dbs and the backing files dats:
\* [outcome, databases], databases the cache after the call
verify_rom(rom_file, dbs, dats) ==
  LET filename == rom_file.name
      system == detect_system(rom_file)
      hack == detect_rom_hack(filename)
  IN IF system = None
       THEN [outcome |-> Return([status |-> "unknown",
                                 message |-> "Unknown file type",
                                 filename |-> filename,
                                 system |-> None], <<>>),
             databases |-> dbs]
     ELSE IF hack[1]
       THEN [outcome |-> Return(hack_result(filename, system, hack), <<>>),
             databases |-> dbs]
     ELSE lookup_and_match(rom_file, filename, system, dbs, dats)

(***************************************************************************)
(* The files and backing files the model draws its inputs from             *)
(***************************************************************************)
Str_1024 == <<"1", "0", "2", "4">>
Str_1536 == <<"1", "5", "3", "6">>
Str_1537 == <<"1", "5", "3", "7">>
Str_4096 == <<"4", "0", "9", "6">>

\* the contents every file of the model has: zlib.crc32 is 0xAB over the
\* whole file and 0xCD past a 16 or 512 byte header
FileSums ==
  [k \in SkipOffsets |->
     IF k = 0 THEN [crc |-> 171, md5 |-> <<"e", "1">>, sha1 |-> <<"f", "1">>]
     ELSE [crc |-> 205, md5 |-> <<"e", "2">>, sha1 |-> <<"f", "2">>]]

\* the folder handed to check_folder
Root == <<"/", "r">>

File(name, size, access, head) ==
  [name |-> name, dir |-> Root, size |-> size, access |-> access,
   head |-> head, sums |-> FileSums, lines |-> <<>>]

Rom(crc, size, md5, sha1) ==
  [crc |-> crc, size |-> size, md5 |-> md5, sha1 |-> sha1]

Game(name, roms) == [name |-> <<name>>, roms |-> roms]

\* crc in lowercase, all three digests of the file, size 1024
G_Exact ==
  Game(N_GameUSA,
       << Rom(<< <<"0", "0", "0", "0", "0", "0", "a", "b">> >>, <<Str_1024>>,
              << <<"e", "1">> >>, << <<"f", "1">> >>) >>)
\* the same crc as G_Exact for another region, size 1536, no md5, no sha1
G_Region ==
  Game(N_GameEurope,
       << Rom(<< <<"0", "0", "0", "0", "0", "0", "A", "B">> >>, <<Str_1536>>,
              <<>>, <<>>) >>)
\* the crc of the file without its header, empty md5 and sha1
G_Headerless ==
  Game(N_GameJapan,
       << Rom(<< <<"0", "0", "0", "0", "0", "0", "C", "D">> >>, <<Str_1024>>,
              << <<>> >>, << <<>> >>) >>)
\* another crc, the md5 and the sha1 of the file, an unrelated name
G_Digests ==
  Game(N_OtherTitle,
       << Rom(<< <<"0", "0", "0", "0", "0", "0", "0", "1">> >>, <<Str_4096>>,
              << <<"E", "1">> >>, << <<"F", "1">> >>) >>)
\* a similar name, a size one byte from 1536 and 513 bytes from 1024
G_Near ==
  Game(N_GameII,
       << Rom(<< <<"0", "0", "0", "0", "0", "0", "0", "2">> >>, <<Str_1537>>,
              <<>>, <<>>) >>)
\* only the md5 of the file, a name of similarity 0.77 to "Game (USA).sfc"
G_OneDigest ==
  Game(N_GameBoy,
       << Rom(<< <<"0", "0", "0", "0", "0", "0", "0", "3">> >>, <<Str_4096>>,
              << <<"E", "1">> >>, <<>>) >>)
\* no crc attribute: load_database does not index the record
G_NoCrc ==
  Game(N_GameUSA,
       << Rom(<<>>, <<Str_1024>>, << <<"E", "1">> >>, << <<"F", "1">> >>) >>)
\* the crc of the file without the zero padding, the sha1 of the file
G_Unpadded ==
  Game(N_OtherTitle,
       << Rom(<< <<"A", "B">> >>, <<Str_1024>>, << <<>> >>,
              << <<"F", "1">> >>) >>)
\* a game of two <rom> records
G_TwoRoms ==
  Game(N_GameWorld,
       << Rom(<< <<"0", "0", "0", "0", "0", "0", "A", "B">> >>, <<Str_1024>>,
              <<>>, <<>>),
          Rom(<< <<"0", "0", "0", "0", "0", "0", "C", "D">> >>, <<Str_1536>>,
              <<>>, <<>>) >>)
\* no size attribute (read as '0'), the best name
G_NoSize ==
  Game(N_GameUSA,
       << Rom(<< <<"0", "0", "0", "0", "0", "0", "0", "4">> >>, <<>>,
              <<>>, <<>>) >>)

\* the sequences over S of length at most n
SeqsUpTo(S, n) == UNION { [1..k -> S] : k \in 0..n }

\* the sequences over S of length at most n without repetition
DistinctSeqsUpTo(S, n) ==
  { q \in SeqsUpTo(S, n) : \A i, j \in 1..Len(q) : i # j => q[i] # q[j] }

AbsentDat == [state |-> "absent", games |-> <<>>]
MalformedDat == [state |-> "malformed", games |-> <<>>]
Dat(games) == [state |-> "ok", games |-> games]

\* the same backing file for every system
AllSystems(dat) == [s \in Systems |-> dat]

VerifyGames ==
  { G_Exact, G_Region, G_Headerless, G_Digests, G_Near, G_OneDigest,
    G_NoCrc, G_Unpadded, G_TwoRoms, G_NoSize }

VerifyDats ==
  {AbsentDat, MalformedDat}
    \cup { Dat(games) : games \in SeqsUpTo(VerifyGames, MaxRecords) }

\* readable files of two names and two sizes for the match tiers, one
\* readable file of every other name, and the files that differ from them
\* in what the code looks at: an iNES magic number, an open() that fails
VerifyFiles ==
  { File(name, size, "ok", <<"S", "N", "E", "S">>) :
      name \in {F_GameUSA, F_Other}, size \in {1024, 1536} }
    \cup { File(name, 1024, "ok", <<"S", "N", "E", "S">>) :
             name \in FileNames \ {F_GameUSA, F_Other} }
    \cup { File(F_Nes, 1024, "ok", INES_MAGIC),
           File(F_GameUSA, 1024, "denied", <<"S", "N", "E", "S">>),
           File(F_Nes, 1024, "denied", INES_MAGIC) }

\* the catalogs of the folder scans
ScanCatalogs ==
  { <<G_Exact, G_Headerless>>, <<G_Exact, G_Near>>, <<G_Region>>, <<G_Near>> }

ScanDats == {AbsentDat, MalformedDat} \cup { Dat(games) : games \in ScanCatalogs }

ScanFiles ==
  { File(F_GameUSA, 1024, "ok", <<"S", "N", "E", "S">>),
    File(F_Other, 1536, "ok", <<"S", "N", "E", "S">>),
    File(F_Translation, 1024, "ok", <<"S", "N", "E", "S">>),
    File(F_Nes, 1024, "denied", INES_MAGIC),
    File(F_Text, 1024, "ok", <<"t", "e", "x", "t">>) }

(***************************************************************************)
(* State                                                                   *)
(***************************************************************************)
VARIABLES
  dats,              \* the backing .dat file of every system
  folder,            \* the files of the scanned folder, in os.walk order
  databases,         \* self.databases: system -> catalog, loaded ones only
  cancel_check,      \* "flag": lambda: self.cancel_requested; "none": None
  cancel_requested,  \* MainWindow.cancel_requested
  pc,                \* position of the caller: idle, check, verify, done,
                     \* raised
  rom_files,         \* check_folder: the candidate files
  index,             \* check_folder: the loop index
  results,           \* check_folder: the results list
  verified,          \* check_folder: counter
  has_header,        \* check_folder: counter
  unknown,           \* check_folder: counter
  failed,            \* check_folder: counter
  log,               \* the lines passed to log_callback
  progress,          \* the calls of progress_callback
  verdict,           \* outcome of the latest verify_rom call
  polls,             \* history: <<index, value>> of every cancel_check()
  requested_at,      \* history: <<pc, index>> when cancel was requested
  calls,             \* history: the load_database calls of a caller that
                     \* loads catalogs directly, with what they returned
  threads,           \* the threads inside load_database: position and locals
  heap,              \* the dict objects the parses of load_database built
  refs,              \* self.databases by object: system -> index in heap
  previous,          \* outcome of the verify_rom call before the latest
  answer,            \* the latest call of a classification function:
                     \* its name, its arguments and what it returned
  health,            \* ROMHealthChecker.check_folder: position and locals
  convert            \* CHDConverter.convert_folder: position and locals

vars ==
  << dats, folder, databases, cancel_check, cancel_requested, pc, rom_files,
     index, results, verified, has_header, unknown, failed, log, progress,
     verdict, polls, requested_at, calls, threads, heap, refs, previous,
     answer, health, convert >>

\* the threads that call load_database on one CartridgeChecker
Threads == {1, 2}

\* a thread that has not called load_database: pc the position in the
\* function, system its argument, database the local variable (an index in
\* heap, 0 when unbound), returned the object returned (0: none yet)
Outside == [pc |-> "idle", system |-> None, database |-> 0, returned |-> 0]

\* CartridgeChecker.__init__ and the locals of check_folder before the call
Fresh ==
  /\ databases = <<>>
  /\ cancel_requested = FALSE
  /\ pc = "idle"
  /\ rom_files = <<>>
  /\ index = 1
  /\ results = <<>>
  /\ verified = 0
  /\ has_header = 0
  /\ unknown = 0
  /\ failed = 0
  /\ log = <<>>
  /\ progress = <<>>
  /\ verdict = NoVerdict(<<>>)
  /\ polls = <<>>
  /\ requested_at = <<>>
  /\ calls = <<>>
  /\ threads = [t \in Threads |-> Outside]
  /\ heap = <<>>
  /\ refs = <<>>
  /\ previous = NoVerdict(<<>>)
  /\ answer = [function |-> "none"]
  /\ health = [pc |-> "idle"]
  /\ convert = [pc |-> "idle"]

\* a folder scan
Init ==
  /\ dats \in { AllSystems(d) : d \in ScanDats }
  /\ folder \in DistinctSeqsUpTo(ScanFiles, MaxFiles)
  /\ cancel_check \in {"none", "flag"}
  /\ Fresh

\* one file handed to verify_rom
InitVerify ==
  /\ dats \in { AllSystems(d) : d \in VerifyDats }
  /\ folder \in { <<f>> : f \in VerifyFiles }
  /\ cancel_check = "none"
  /\ Fresh

(***************************************************************************)
(* check_folder                                                            *)
(*                                                                         *)
(* The scanned folder is one directory, so a path is the file's name and   *)
(* os.path.normpath(os.path.join(cue_dir, bin_file)) is bin_file.          *)
(***************************************************************************)
\* s.endswith(suffix)
EndsWith(s, suffix) ==
  /\ Len(suffix) <= Len(s)
  /\ SubSeq(s, Len(s) - Len(suffix) + 1, Len(s)) = suffix

\* index of the first c in s from position i on, 0 when there is none
FirstAt(s, c, i) ==
  IF \E k \in i..Len(s) : s[k] = c
    THEN CHOOSE k \in i..Len(s) :
           s[k] = c /\ \A j \in i..(k - 1) : s[j] # c
    ELSE 0

\* lines 530-535 on one line of a .cue file: the set holding
\* line.split('"')[1] when the line mentions FILE and has a quote
cue_line_files(line) ==
  LET q1 == FirstAt(line, "\"", 1)
      q2 == FirstAt(line, "\"", q1 + 1)
  IN IF Contains(Upper(line), <<"F", "I", "L", "E">>) /\ q1 > 0
       THEN { SubSeq(line, q1 + 1, IF q2 = 0 THEN Len(line) ELSE q2 - 1) }
       ELSE {}

\* s.split(c) for a one-character separator
RECURSIVE split(_, _)
split(s, c) ==
  LET k == FirstAt(s, c, 1)
  IN IF k = 0 THEN <<s>>
     ELSE <<SubSeq(s, 1, k - 1)>> \o split(SubSeq(s, k + 1, Len(s)), c)

\* c.join(comps)
RECURSIVE join_comps(_, _)
join_comps(comps, c) ==
  IF comps = <<>> THEN <<>>
  ELSE IF Len(comps) = 1 THEN comps[1]
  ELSE comps[1] \o <<c>> \o join_comps(Tail(comps), c)

\* os.path.join(a, b)
join(a, b) ==
  IF b # <<>> /\ b[1] = "/" THEN b
  ELSE IF a = <<>> \/ a[Len(a)] = "/" THEN a \o b
  ELSE a \o <<"/">> \o b

\* s.rstrip('/')
RECURSIVE rstrip_slash(_)
rstrip_slash(s) ==
  IF s # <<>> /\ s[Len(s)] = "/"
    THEN rstrip_slash(SubSeq(s, 1, Len(s) - 1)) ELSE s

\* the index of the last "/" in p, 0 when there is none
LastSlash(p) ==
  IF \E k \in 1..Len(p) : p[k] = "/"
    THEN CHOOSE k \in 1..Len(p) :
           p[k] = "/" /\ \A j \in (k + 1)..Len(p) : p[j] # "/"
    ELSE 0

\* os.path.dirname(p)
dirname(p) ==
  LET head == SubSeq(p, 1, LastSlash(p))
  IN IF head # <<>> /\ \E k \in 1..Len(head) : head[k] # "/"
       THEN rstrip_slash(head) ELSE head

\* the loop of os.path.normpath over the components from position i on
RECURSIVE norm_comps(_, _, _, _)
norm_comps(comps, i, new_comps, initial_slashes) ==
  IF i > Len(comps) THEN new_comps
  ELSE LET comp == comps[i] IN
    IF comp = <<>> \/ comp = <<".">>
      THEN norm_comps(comps, i + 1, new_comps, initial_slashes)
    ELSE IF \/ comp # <<".", ".">>
            \/ (initial_slashes = 0 /\ new_comps = <<>>)
            \/ (new_comps # <<>> /\ new_comps[Len(new_comps)] = <<".", ".">>)
      THEN norm_comps(comps, i + 1, Append(new_comps, comp), initial_slashes)
    ELSE IF new_comps # <<>>
      THEN norm_comps(comps, i + 1,
                      SubSeq(new_comps, 1, Len(new_comps) - 1),
                      initial_slashes)
    ELSE norm_comps(comps, i + 1, new_comps, initial_slashes)

\* os.path.normpath(path)
normpath(path) ==
  IF path = <<>> THEN <<".">>
  ELSE LET initial_slashes ==
             IF path[1] # "/" THEN 0
             ELSE IF Len(path) >= 2 /\ path[2] = "/"
                     /\ ~(Len(path) >= 3 /\ path[3] = "/") THEN 2
             ELSE 1
           comps == norm_comps(split(path, "/"), 1, <<>>, initial_slashes)
           joined == [k \in 1..initial_slashes |-> "/"]
                       \o join_comps(comps, "/")
       IN IF joined = <<>> THEN <<".">> ELSE AsSeq(joined)

\* os.path.join(root, file) for a file of the walk
full_path(f) == join(f.dir, f.name)

\* lines 520-537: the normalized paths the .cue files of the folder refer
\* to; a .cue file that cannot be opened is passed over
cue_bin_files(files) ==
  UNION { UNION { { normpath(join(dirname(full_path(files[i])), bin_file)) :
                      bin_file \in cue_line_files(files[i].lines[k]) } :
                    k \in 1..Len(files[i].lines) } :
          i \in { j \in 1..Len(files) :
                    /\ EndsWith(Lower(files[j].name), <<".", "c", "u", "e">>)
                    /\ files[j].access = "ok" } }

\* lines 549-554: the extension is listed for some system
has_rom_extension(name) ==
  \E i \in 1..Len(SYSTEM_EXTENSIONS) :
    InList(SYSTEM_EXTENSIONS[i][2], Lower(splitext(name)))

\* find_rom_files comparing the paths as they are written, without
\* os.path.normpath
find_rom_files_unnormalized(files) ==
  LET excluded ==
        UNION { UNION { { join(dirname(full_path(files[i])), bin_file) :
                            bin_file \in cue_line_files(files[i].lines[k]) } :
                          k \in 1..Len(files[i].lines) } :
                i \in { j \in 1..Len(files) :
                          /\ EndsWith(Lower(files[j].name),
                                      <<".", "c", "u", "e">>)
                          /\ files[j].access = "ok" } }
  IN SelectSeq(files,
       LAMBDA f : /\ full_path(f) \notin excluded
                  /\ has_rom_extension(f.name))

\* lines 539-554: the candidate files, in walk order
find_rom_files(files) ==
  LET excluded == cue_bin_files(files)
  IN SelectSeq(files,
       LAMBDA f : /\ normpath(full_path(f)) \notin excluded
                  /\ has_rom_extension(f.name))

\* result.get('all_regions')
HasRegions(result) == "all_regions" \in DOMAIN result

\* lines 584-646: the lines logged for one result
result_log(result) ==
  IF result.status = "verified"
    THEN << <<"ok", result.message>>,
            IF HasRegions(result) THEN <<"Matches:", result.all_regions>>
                                  ELSE <<"Game:", result.game_name>>,
            <<"Confidence:", result.confidence>> >>
  ELSE IF result.status = "has_header"
    THEN << <<"warning", result.message>>,
            IF HasRegions(result) THEN <<"Matches:", result.all_regions>>
                                  ELSE <<"Game:", result.game_name>>,
            <<"Header Size:", result.header_size>> >>
  ELSE IF result.status \in {"probable", "likely"}
    THEN << <<"ok", result.message>>,
            <<"Game:", result.game_name>>,
            <<"Confidence:", result.confidence>> >>
  ELSE IF result.status = "hack"
    THEN << <<"hack", result.message>>,
            <<"Type:", result.hack_type>>,
            <<"Confidence:", result.confidence>> >>
  ELSE IF result.status = "name_match"
    THEN << <<"name", result.message>>,
            <<"Possible:", result.game_name>>,
            <<"Confidence:", result.confidence>> >>
  ELSE IF result.status = "unknown"
    THEN << <<"unknown", result.message>> >>
  ELSE IF result.status = "no_database"
    THEN << <<"warning", result.message>> >>
  ELSE << <<"failed", result.message>> >>

\* counter_of counting a 'likely' result as needing attention
counter_of_likely_unknown(status) ==
  IF status = "verified" THEN "verified"
  ELSE IF status = "has_header" THEN "has_header"
  ELSE IF status = "probable" THEN "verified"
  ELSE IF status = "likely" THEN "unknown"
  ELSE IF status = "hack" THEN "unknown"
  ELSE IF status = "name_match" THEN "unknown"
  ELSE IF status = "unknown" THEN "unknown"
  ELSE IF status = "no_database" THEN "unknown"
  ELSE "failed"

\* counter_of leaving a suspected hack out of every counter
counter_of_hack_uncounted(status) ==
  IF status = "verified" THEN "verified"
  ELSE IF status = "has_header" THEN "has_header"
  ELSE IF status = "probable" THEN "verified"
  ELSE IF status = "likely" THEN "verified"
  ELSE IF status = "hack" THEN "none"
  ELSE IF status = "name_match" THEN "unknown"
  ELSE IF status = "unknown" THEN "unknown"
  ELSE IF status = "no_database" THEN "unknown"
  ELSE "failed"

\* lines 585-644: the counter a result increments
counter_of(status) ==
  IF status = "verified" THEN "verified"
  ELSE IF status = "has_header" THEN "has_header"
  ELSE IF status = "probable" THEN "verified"
  ELSE IF status = "likely" THEN "verified"
  ELSE IF status = "hack" THEN "unknown"
  ELSE IF status = "name_match" THEN "unknown"
  ELSE IF status = "unknown" THEN "unknown"
  ELSE IF status = "no_database" THEN "unknown"
  ELSE "failed"

\* check_folder is called: lines 514-562
StartScan ==
  /\ pc = "idle"
  /\ rom_files' = find_rom_files(folder)
  /\ IF rom_files' = <<>>
       THEN /\ log' = Append(log, <<"No cartridge ROM files found in folder">>)
            /\ pc' = "done"
       ELSE /\ log' = Append(log, <<"Found", Len(rom_files')>>)
            /\ pc' = "check"
  /\ UNCHANGED << answer, health, convert,
                  calls, threads, heap, refs, previous, dats, folder,
                  databases, cancel_check, cancel_requested,
                  index, results, verified, has_header, unknown, failed,
                  progress, verdict, polls, requested_at >>

\* CheckCancel returning the empty aggregate of line 559 on cancellation
CheckCancel_drops_results ==
  /\ pc = "check"
  /\ polls' = IF cancel_check = "flag"
                THEN Append(polls, <<index, cancel_requested>>)
                ELSE polls
  /\ IF cancel_check = "flag" /\ cancel_requested
       THEN /\ log' = Append(log, <<"Health check cancelled by user">>)
            /\ pc' = "done"
            /\ results' = <<>>
            /\ verified' = 0
            /\ has_header' = 0
            /\ unknown' = 0
            /\ failed' = 0
       ELSE /\ log' = log
            /\ pc' = "verify"
            /\ UNCHANGED <<results, verified, has_header, unknown, failed>>
  /\ UNCHANGED << answer, health, convert,
                  calls, threads, heap, refs, previous, dats, folder,
                  databases, cancel_check, cancel_requested,
                  rom_files, index, progress, verdict, requested_at >>

\* the head of one loop iteration, lines 565-570: the cancellation check
CheckCancel ==
  /\ pc = "check"
  /\ polls' = IF cancel_check = "flag"
                THEN Append(polls, <<index, cancel_requested>>)
                ELSE polls
  /\ IF cancel_check = "flag" /\ cancel_requested
       THEN /\ log' = Append(log, <<"Health check cancelled by user">>)
            /\ pc' = "done"
       ELSE /\ log' = log
            /\ pc' = "verify"
  /\ UNCHANGED << answer, health, convert,
                  calls, threads, heap, refs, previous, dats, folder,
                  databases, cancel_check, cancel_requested,
                  rom_files, index, results, verified, has_header, unknown,
                  failed, progress, verdict, requested_at >>

\* VerifyFile looking at the cancellation flag again once the file is
\* verified and leaving without the file's result when it is set
VerifyFile_preemptive ==
  /\ pc = "verify"
  /\ \E call \in {verify_rom(rom_files[index], databases, dats)} :
     LET filename == rom_files[index].name
         result == call.outcome.value
         dropped == cancel_requested \/ call.outcome.kind = "raise"
         counter == IF dropped THEN "none" ELSE counter_of(result.status)
     IN /\ progress' = Append(progress, <<index, Len(rom_files), filename>>)
        /\ verdict' = call.outcome
        /\ databases' = call.databases
        /\ results' = IF dropped THEN results ELSE Append(results, result)
        /\ verified' = IF counter = "verified" THEN verified + 1 ELSE verified
        /\ has_header' = IF counter = "has_header" THEN has_header + 1
                         ELSE has_header
        /\ unknown' = IF counter = "unknown" THEN unknown + 1 ELSE unknown
        /\ failed' = IF counter = "failed" THEN failed + 1 ELSE failed
        /\ log' = IF dropped THEN Append(log, <<"Verifying:", filename>>)
                  ELSE Append(log, <<"Verifying:", filename>>)
                         \o result_log(result)
        /\ index' = IF dropped THEN index ELSE index + 1
        /\ pc' = IF call.outcome.kind = "raise" THEN "raised"
                 ELSE IF dropped \/ index = Len(rom_files) THEN "done"
                 ELSE "check"
  /\ UNCHANGED << answer, health, convert,
                  calls, threads, heap, refs, previous, dats, folder,
                  cancel_check, cancel_requested, rom_files,
                  polls, requested_at >>

\* VerifyFile putting the new result at the front of the results list
VerifyFile_prepends ==
  /\ pc = "verify"
  /\ \E call \in {verify_rom(rom_files[index], databases, dats)} :
     LET filename == rom_files[index].name
         raised == call.outcome.kind = "raise"
         result == call.outcome.value
         counter == IF raised THEN "none" ELSE counter_of(result.status)
     IN /\ progress' = Append(progress, <<index, Len(rom_files), filename>>)
        /\ verdict' = call.outcome
        /\ databases' = call.databases
        /\ results' = IF raised THEN results ELSE <<result>> \o results
        /\ verified' = IF counter = "verified" THEN verified + 1 ELSE verified
        /\ has_header' = IF counter = "has_header" THEN has_header + 1
                         ELSE has_header
        /\ unknown' = IF counter = "unknown" THEN unknown + 1 ELSE unknown
        /\ failed' = IF counter = "failed" THEN failed + 1 ELSE failed
        /\ log' = IF raised THEN Append(log, <<"Verifying:", filename>>)
                  ELSE Append(log, <<"Verifying:", filename>>)
                         \o result_log(result)
        /\ index' = IF raised THEN index ELSE index + 1
        /\ pc' = IF raised THEN "raised"
                 ELSE IF index = Len(rom_files) THEN "done"
                 ELSE "check"
  /\ UNCHANGED << answer, health, convert,
                  calls, threads, heap, refs, previous, dats, folder,
                  cancel_check, cancel_requested, rom_files,
                  polls, requested_at >>

\* VerifyFile leaving the loop after a file that could not be read
VerifyFile_stops_on_error ==
  /\ pc = "verify"
  /\ \E call \in {verify_rom(rom_files[index], databases, dats)} :
     LET filename == rom_files[index].name
         raised == call.outcome.kind = "raise"
         result == call.outcome.value
         counter == IF raised THEN "none" ELSE counter_of(result.status)
     IN /\ progress' = Append(progress, <<index, Len(rom_files), filename>>)
        /\ verdict' = call.outcome
        /\ databases' = call.databases
        /\ results' = IF raised THEN results ELSE Append(results, result)
        /\ verified' = IF counter = "verified" THEN verified + 1 ELSE verified
        /\ has_header' = IF counter = "has_header" THEN has_header + 1
                         ELSE has_header
        /\ unknown' = IF counter = "unknown" THEN unknown + 1 ELSE unknown
        /\ failed' = IF counter = "failed" THEN failed + 1 ELSE failed
        /\ log' = IF raised THEN Append(log, <<"Verifying:", filename>>)
                  ELSE Append(log, <<"Verifying:", filename>>)
                         \o result_log(result)
        /\ index' = IF raised THEN index ELSE index + 1
        /\ pc' = IF raised THEN "raised"
                 ELSE IF index = Len(rom_files) \/ counter = "failed"
                   THEN "done"
                 ELSE "check"
  /\ UNCHANGED << answer, health, convert,
                  calls, threads, heap, refs, previous, dats, folder,
                  cancel_check, cancel_requested, rom_files,
                  polls, requested_at >>

\* VerifyFile cutting the header off a file it reports as 'has_header'
VerifyFile_strips_header ==
  /\ pc = "verify"
  /\ \E call \in {verify_rom(rom_files[index], databases, dats)} :
     LET filename == rom_files[index].name
         raised == call.outcome.kind = "raise"
         result == call.outcome.value
         counter == IF raised THEN "none" ELSE counter_of(result.status)
     IN /\ progress' = Append(progress, <<index, Len(rom_files), filename>>)
        /\ verdict' = call.outcome
        /\ databases' = call.databases
        /\ results' = IF raised THEN results ELSE Append(results, result)
        /\ verified' = IF counter = "verified" THEN verified + 1 ELSE verified
        /\ has_header' = IF counter = "has_header" THEN has_header + 1
                         ELSE has_header
        /\ unknown' = IF counter = "unknown" THEN unknown + 1 ELSE unknown
        /\ failed' = IF counter = "failed" THEN failed + 1 ELSE failed
        /\ log' = IF raised THEN Append(log, <<"Verifying:", filename>>)
                  ELSE Append(log, <<"Verifying:", filename>>)
                         \o result_log(result)
        /\ index' = IF raised THEN index ELSE index + 1
        /\ pc' = IF raised THEN "raised"
                 ELSE IF index = Len(rom_files) THEN "done"
                 ELSE "check"
        /\ folder' =
             IF counter = "has_header"
               THEN AsSeq([k \in 1..Len(folder) |->
                             IF folder[k] = rom_files[index]
                               THEN [folder[k] EXCEPT
                                       !.size = @ - result.header_size]
                               ELSE folder[k]])
               ELSE folder
  /\ UNCHANGED << answer, health, convert,
                  calls, threads, heap, refs, previous, dats,
                  cancel_check, cancel_requested, rom_files,
                  polls, requested_at >>

\* the rest of the iteration, lines 572-646, and the return of line 648
\* after the last file; an exception of verify_rom leaves check_folder
VerifyFile ==
  /\ pc = "verify"
  /\ \E call \in {verify_rom(rom_files[index], databases, dats)} :
     LET filename == rom_files[index].name
         raised == call.outcome.kind = "raise"
         result == call.outcome.value
         counter == IF raised THEN "none" ELSE counter_of(result.status)
     IN /\ progress' = Append(progress, <<index, Len(rom_files), filename>>)
        /\ verdict' = call.outcome
        /\ databases' = call.databases
        /\ results' = IF raised THEN results ELSE Append(results, result)
        /\ verified' = IF counter = "verified" THEN verified + 1 ELSE verified
        /\ has_header' = IF counter = "has_header" THEN has_header + 1
                         ELSE has_header
        /\ unknown' = IF counter = "unknown" THEN unknown + 1 ELSE unknown
        /\ failed' = IF counter = "failed" THEN failed + 1 ELSE failed
        /\ log' = IF raised THEN Append(log, <<"Verifying:", filename>>)
                  ELSE Append(log, <<"Verifying:", filename>>)
                         \o result_log(result)
        /\ index' = IF raised THEN index ELSE index + 1
        /\ pc' = IF raised THEN "raised"
                 ELSE IF index = Len(rom_files) THEN "done"
                 ELSE "check"
  /\ UNCHANGED << answer, health, convert,
                  calls, threads, heap, refs, previous, dats, folder,
                  cancel_check, cancel_requested, rom_files,
                  polls, requested_at >>

\* MainWindow.cancel_processing, confirmed by the user while the scan runs
RequestCancel ==
  /\ pc \in {"idle", "check", "verify"}
  /\ ~cancel_requested
  /\ cancel_requested' = TRUE
  /\ requested_at' = <<pc, index>>
  /\ UNCHANGED << answer, health, convert,
                  calls, threads, heap, refs, previous, dats, folder,
                  databases, cancel_check, pc, rom_files,
                  index, results, verified, has_header, unknown, failed,
                  log, progress, verdict, polls >>

Next ==
  \/ StartScan
  \/ CheckCancel
  \/ VerifyFile
  \/ RequestCancel

Spec == Init /\ [][Next]_vars

\* verify_rom called on the file of the folder
VerifyRom ==
  /\ pc = "idle"
  /\ \E call \in {verify_rom(folder[1], databases, dats)} :
        /\ verdict' = call.outcome
        /\ databases' = call.databases
  /\ pc' = "done"
  /\ UNCHANGED << answer, health, convert,
                  calls, threads, heap, refs, previous, dats, folder,
                  cancel_check, cancel_requested, rom_files, index,
                  results, verified, has_header, unknown, failed,
                  log, progress, polls, requested_at >>

NextVerify == VerifyRom

SpecVerify == InitVerify /\ [][NextVerify]_vars

(***************************************************************************)
(* Vocabulary of the properties of verify_rom (checked under SpecVerify,   *)
(* where the folder holds the one file verify_rom is called on)            *)
(***************************************************************************)
TheFile == folder[1]
TheSystem == detect_system(TheFile)

\* the catalog of the file's system as the cache holds it after the call
TheCatalog ==
  IF TheSystem \in DOMAIN databases THEN databases[TheSystem] ELSE <<>>

\* the call came back with a result dict
Returned == pc = "done" /\ verdict.kind = "return"

\* the file went through to the match tiers: a recognized extension, a name
\* that is not flagged, a catalog that is not empty, contents that were read
ReachedTiers ==
  /\ Returned
  /\ TheFile.access = "ok"
  /\ TheSystem # None
  /\ TheCatalog # <<>>
  /\ ~detect_rom_hack(TheFile.name)[1]

\* the digests of the whole file as verify_rom compares them
FileCrc == Upper(HexDigits(TheFile.sums[0].crc, 8))
FileMd5 == Upper(TheFile.sums[0].md5)
FileSha1 == Upper(TheFile.sums[0].sha1)

\* the header heuristic: an SNES size of 512 over a multiple of 1024, an
\* NES file that starts with the iNES magic number
HeaderSuspected ==
  \/ TheSystem = "snes" /\ TheFile.size % 1024 = 512
  \/ TheSystem = "nes" /\ TheFile.head = <<"N", "E", "S", "^Z">>

\* the crc32 of the file without its header
StrippedCrc ==
  Upper(HexDigits(TheFile.sums[IF TheSystem = "snes" THEN 512 ELSE 16].crc, 8))

\* the conditions of the tiers on one catalog entry
IsExact(e) == e.crc = FileCrc /\ ParseInt(e.size).value = TheFile.size
IsStripped(e) == HeaderSuspected /\ e.crc = StrippedCrc
IsPartial(e) ==
  LET c == e.crc = FileCrc
      m == e.md5 = FileMd5
      h == e.sha1 = FileSha1
  IN (c /\ m) \/ (c /\ h) \/ (m /\ h)
IsFuzzy(e) ==
  /\ ParseInt(e.size).value - TheFile.size \in -512..512
  /\ FracGE(similarity(TheFile.name, e.name), <<4, 5>>)
IsNamed(e) == FracGE(similarity(TheFile.name, e.name), <<7, 10>>)

\* some entry of the catalog satisfies P
Some(P(_)) == \E i \in 1..Len(TheCatalog) : P(TheCatalog[i])
\* the names of the entries that satisfy P, in catalog order
NamesOf(P(_)) ==
  LET hits == SelectSeq(TheCatalog, P)
  IN AsSeq([i \in 1..Len(hits) |-> hits[i].name])

\* the ROM records of the backing file of the file's system, game by game,
\* as <<game name, rom>>
RECURSIVE RecordsOf(_)
RecordsOf(games) ==
  IF games = <<>> THEN <<>>
  ELSE LET g == Head(games)
       IN AsSeq([k \in 1..Len(g.roms) |->
                   <<Get(g.name, N_Unknown), g.roms[k]>>])
            \o RecordsOf(Tail(games))
BackingRecords == RecordsOf(dats[TheSystem].games)

\* the backing records with the file's crc32 and the file's size
SameContent(rec) ==
  /\ rec[2].crc # <<>>
  /\ Upper(rec[2].crc[1]) = FileCrc
  /\ rec[2].size # <<>>
  /\ ParseInt(rec[2].size[1]).value = TheFile.size
SameContentRecords == SelectSeq(BackingRecords, SameContent)

(***************************************************************************)
(* Properties of verify_rom                                                *)
(***************************************************************************)
\* C1: the tiers are tried in order and exclude each other.  A file with no
\* exact and no header-stripped match, for which some catalog entry agrees
\* on two of the three digests and some entry matches by name (>= 0.8) and
\* size (within 512 bytes), is 'probable', never 'likely'; and a status is
\* returned only when no higher tier's condition holds: 'has_header' only
\* without an exact match, 'probable' only without an exact or
\* header-stripped match, 'likely' only without a partial-digest match as
\* well, 'name_match' only without a name+size match as well, and the
\* 'unknown' of the last tier only when no tier's condition holds.
C1_TiersOrdered ==
  ReachedTiers =>
    LET status == verdict.value.status
        above2 == Some(IsExact) \/ Some(IsStripped)
        above3 == above2 \/ Some(IsPartial)
        above4 == above3 \/ Some(IsFuzzy)
        above5 == above4 \/ Some(IsNamed)
    IN /\ (Some(IsPartial) /\ Some(IsFuzzy) /\ ~above2 => status = "probable")
       /\ (status = "has_header" => ~Some(IsExact))
       /\ (status = "probable" => ~above2)
       /\ (status = "likely" => ~above3)
       /\ (status = "name_match" => ~above4)
       /\ (status = "unknown" => ~above5)

\* a file that satisfies the partial-digest tier and the name+size tier,
\* and no tier above them, came back 'probable'
C1_Witness ==
  /\ ReachedTiers
  /\ Some(IsPartial) /\ Some(IsFuzzy)
  /\ ~Some(IsExact) /\ ~Some(IsStripped)
  /\ verdict.value.status = "probable"

\* C2: a file with a recognized extension whose name detect_rom_hack flags
\* comes back 'hack' with the detected category and confidence whatever
\* the catalog holds, and no backing file was opened, no catalog cached and
\* no byte of the file read for it.
C2_HackShortCircuit ==
  pc = "done" /\ TheSystem # None /\ detect_rom_hack(TheFile.name)[1] =>
    /\ verdict.kind = "return"
    /\ verdict.value.status = "hack"
    /\ verdict.value.hack_type = detect_rom_hack(TheFile.name)[2]
    /\ verdict.value.confidence = detect_rom_hack(TheFile.name)[3]
    /\ verdict.io = <<>>
    /\ databases = <<>>

\* a readable file with a translation marker, whose backing file holds a
\* record with the file's crc32 and size, came back 'hack'
C2_Witness ==
  /\ Returned
  /\ TheFile.name = F_Translation
  /\ TheFile.access = "ok"
  /\ dats[TheSystem].state = "ok"
  /\ SameContentRecords # <<>>
  /\ verdict.value.status = "hack"
  /\ verdict.value.hack_type = "translation"

\* C3: for a readable file that is not flagged, of a system with a catalog
\* that is not empty, the result is 'verified' with confidence '100%'
\* exactly when some catalog entry has the file's crc32 and the file's
\* size; an entry with the file's crc32 and another size does not make it
\* 'verified'.
C3_ExactIffCrcAndSize ==
  ReachedTiers =>
    /\ (verdict.value.status = "verified" <=> Some(IsExact))
    /\ (verdict.value.status = "verified" =>
          verdict.value.confidence = "100%")

\* an exact match was verified
C3_Witness ==
  /\ ReachedTiers
  /\ Some(IsExact)
  /\ verdict.value.status = "verified"
  /\ verdict.value.confidence = "100%"

\* C4: once load_database has parsed the backing file of a system, the
\* catalog holds, under its crc32, every ROM record of the file that has a
\* crc32: its game's name, size, md5 and sha1.
C4_AllRecordsKept ==
  pc = "done" /\ TheSystem \in DOMAIN databases =>
    \A k \in 1..Len(BackingRecords) :
      LET rec == BackingRecords[k] IN
        Get(rec[2].crc, <<>>) # <<>> =>
          \E i \in 1..Len(TheCatalog) :
            /\ TheCatalog[i].crc = Upper(rec[2].crc[1])
            /\ TheCatalog[i].name = rec[1]
            /\ TheCatalog[i].size = Get(rec[2].size, <<"0">>)
            /\ TheCatalog[i].md5 = Upper(Get(rec[2].md5, <<>>))
            /\ TheCatalog[i].sha1 = Upper(Get(rec[2].sha1, <<>>))

\* C5: when two or more ROM records of the backing file have the file's
\* crc32 and the file's size, the result is 'verified', all_regions lists
\* the names of all those records and game_name is the first of them.
C5_AllRegionsReported ==
  /\ Returned
  /\ TheSystem # None
  /\ ~detect_rom_hack(TheFile.name)[1]
  /\ TheFile.access = "ok"
  /\ dats[TheSystem].state = "ok"
  /\ Len(SameContentRecords) >= 2
  => /\ verdict.value.status = "verified"
     /\ "all_regions" \in DOMAIN verdict.value
     /\ verdict.value.all_regions =
          AsSeq([k \in 1..Len(SameContentRecords) |->
                   SameContentRecords[k][1]])
     /\ verdict.value.game_name = SameContentRecords[1][1]

\* C6: when no entry matches exactly and the header heuristic reports
\* true, a catalog entry with the crc32 of the file without its header
\* (whatever its size) makes the result 'has_header', with the header size
\* of the system (512 for snes), the stripped crc32 and the matched names;
\* 'has_header' is never the result when the heuristic reports false or an
\* exact match exists.
C6_HeaderStrippedTier ==
  ReachedTiers =>
    LET result == verdict.value
        names == NamesOf(IsStripped)
    IN /\ ( ~Some(IsExact) /\ Some(IsStripped) =>
              /\ result.status = "has_header"
              /\ result.header_size = HEADER_SYSTEMS[TheSystem]
              /\ (TheSystem = "snes" => result.header_size = 512)
              /\ result.crc32 = StrippedCrc
              /\ result.game_name = names[1]
              /\ (Len(names) > 1 => result.all_regions = names) )
       /\ ( result.status = "has_header" =>
              HeaderSuspected /\ Some(IsStripped) /\ ~Some(IsExact) )

\* an SNES file of size 512 over a multiple of 1024, whose stripped crc32
\* an entry of another size holds, came back 'has_header' with 512
C6_Witness ==
  /\ ReachedTiers
  /\ TheSystem = "snes"
  /\ TheFile.size % 1024 = 512
  /\ \E i \in 1..Len(TheCatalog) :
       /\ IsStripped(TheCatalog[i])
       /\ ParseInt(TheCatalog[i].size).value # TheFile.size
  /\ verdict.value.status = "has_header"
  /\ verdict.value.header_size = 512

(***************************************************************************)
(* Vocabulary of the properties of check_folder (checked under Spec)       *)
(***************************************************************************)
\* the verdict of a candidate file
VerdictOf(rom_file) == verify_rom(rom_file, <<>>, dats).outcome.value

\* the number of results with a status of the set
CountOf(statuses) ==
  Cardinality({ i \in 1..Len(results) : results[i].status \in statuses })

\* the check_folder call has returned
ScanReturned == pc = "done"

\* the cancellation predicate returned true
CancelSeen == \E j \in 1..Len(polls) : polls[j][2]
\* the file before which it first did
CancelledBefore ==
  polls[CHOOSE j \in 1..Len(polls) :
          polls[j][2] /\ \A k \in 1..(j - 1) : ~polls[k][2]][1]

\* the "Verifying:" lines of the log
VerifyingLines == SelectSeq(log, LAMBDA line : line[1] = "Verifying:")

(***************************************************************************)
(* Properties of check_folder                                              *)
(***************************************************************************)
\* C7: when the cancellation predicate first returns true at the check
\* before file K, the scan returns exactly K-1 results, the verdicts of
\* files 1..K-1 in order, no result for the files K..N, and counters that
\* add up to K-1 and count those K-1 results.
C7_CancelledScanKeepsPrefix ==
  ScanReturned /\ CancelSeen =>
    LET K == CancelledBefore IN
      /\ K \in 1..Len(rom_files)
      /\ Len(results) = K - 1
      /\ \A i \in 1..(K - 1) : results[i] = VerdictOf(rom_files[i])
      /\ \A i \in K..Len(rom_files) :
           \A j \in 1..Len(results) :
             results[j].filename # rom_files[i].name
      /\ verified + has_header + unknown + failed = K - 1
      /\ \A c \in {"verified", "has_header", "unknown", "failed"} :
           (CASE c = "verified" -> verified
              [] c = "has_header" -> has_header
              [] c = "unknown" -> unknown
              [] c = "failed" -> failed)
           = Cardinality({ i \in 1..(K - 1) :
                             counter_of(VerdictOf(rom_files[i]).status) = c })

\* a scan of two candidates cancelled at the check before the second one
\* returned the verdict of the first one
C7_Witness ==
  /\ ScanReturned
  /\ CancelSeen
  /\ CancelledBefore = 2
  /\ Len(rom_files) = 2
  /\ Len(results) = 1
  /\ verified + has_header + unknown + failed = 1

\* C8: the cancellation predicate is sampled once per file and before the
\* verification of that file starts: the samples are those of files 1, 2,
\* ... in order, each file whose verification started was sampled false,
\* and at most one sampled file has not started.  A cancellation requested
\* after the verification of file K has begun leaves file K verified,
\* appended and counted, and nothing of file K+1: no progress call, no log
\* line, no result.
C8_CooperativeCancel ==
  cancel_check = "flag" =>
    /\ \A j \in 1..Len(polls) : polls[j][1] = j
    /\ \A j \in 1..Len(progress) :
         /\ j <= Len(polls)
         /\ polls[j] = <<j, FALSE>>
         /\ progress[j][1] = j
    /\ Len(polls) <= Len(progress) + 1
    /\ (pc = "verify" => Len(polls) = Len(progress) + 1)
    /\ ( requested_at # <<>> /\ requested_at[1] = "verify" =>
           LET K == requested_at[2] IN
             /\ Len(progress) <= K
             /\ Len(results) <= K
             /\ Len(VerifyingLines) <= K
             /\ ( ScanReturned =>
                    /\ Len(progress) = K
                    /\ Len(VerifyingLines) = K
                    /\ Len(results) = K
                    /\ results[K] = VerdictOf(rom_files[K])
                    /\ verified + has_header + unknown + failed = K ) )

\* cancellation was requested while the first of two candidates was being
\* verified, and the scan returned with the result of the first one only
C8_Witness ==
  /\ cancel_check = "flag"
  /\ ScanReturned
  /\ requested_at = <<"verify", 1>>
  /\ Len(rom_files) = 2
  /\ Len(results) = 1
  /\ Len(progress) = 1
  /\ polls = << <<1, FALSE>>, <<2, TRUE>> >>

\* C9: at every point of a scan the results are the verdicts of the first
\* candidates, in the order of discovery, one for each; a scan that returns
\* without having been cancelled has one result per candidate.
C9_ResultsArePrefix ==
  pc \in {"check", "verify", "done"} =>
    /\ rom_files = find_rom_files(folder)
    /\ Len(results) <= Len(rom_files)
    /\ \A i \in 1..Len(results) :
         /\ results[i].filename = rom_files[i].name
         /\ results[i] = VerdictOf(rom_files[i])
    /\ (ScanReturned /\ ~CancelSeen => Len(results) = Len(rom_files))

\* an uncancelled scan returned two results of different status for two
\* candidates
C9_Witness ==
  /\ ScanReturned
  /\ ~CancelSeen
  /\ Len(rom_files) = 2
  /\ Len(results) = 2
  /\ results[1].status # results[2].status

\* C10 as the specification states it: results with status verified,
\* has_header, probable or likely are counted in the 'verified' count,
\* results with status unknown, hack, name_match or no_database in the
\* 'unknown' count, results with status error in the 'failed' count.
C10_AsStated ==
  /\ verified = CountOf({"verified", "has_header", "probable", "likely"})
  /\ unknown = CountOf({"unknown", "hack", "name_match", "no_database"})
  /\ failed = CountOf({"error"})

\* C10: results with status verified, probable or likely are counted in the
\* 'verified' count, results with status has_header in a count of their
\* own ('has_header') and not in 'verified', results with status unknown,
\* hack, name_match or no_database in the 'unknown' count, results with
\* status error in the 'failed' count.
C10_SummaryCounts ==
  /\ verified = CountOf({"verified", "probable", "likely"})
  /\ has_header = CountOf({"has_header"})
  /\ unknown = CountOf({"unknown", "hack", "name_match", "no_database"})
  /\ failed = CountOf({"error"})

\* a scan returned a 'verified' result and a 'has_header' result
C10_Witness ==
  /\ ScanReturned
  /\ CountOf({"has_header"}) = 1
  /\ CountOf({"verified"}) = 1
  /\ has_header = 1
  /\ verified = 1

\* calculate_checksums is reached for the candidate and fails: the name is
\* not flagged, the backing file of the system yields a catalog that is not
\* empty, the file can be stat'ed and cannot be opened
ChecksumFails(rom_file) ==
  /\ rom_file.access = "denied"
  /\ dats[detect_system(rom_file)].state = "ok"
  /\ index_games(<<>>, dats[detect_system(rom_file)].games) # <<>>
  /\ ~detect_rom_hack(rom_file.name)[1]

\* C11: a candidate whose checksums cannot be computed gets an 'error'
\* result, each such result adds one to the failed counter and nothing else
\* does, and the scan goes on: unless it is cancelled, every candidate
\* after the failing one has its own result when the scan returns.
C11_ErrorDoesNotAbort ==
  /\ \A i \in 1..Len(results) :
       ChecksumFails(rom_files[i]) =>
         /\ results[i].status = "error"
         /\ results[i].filename = rom_files[i].name
         /\ (ScanReturned /\ ~CancelSeen => Len(results) = Len(rom_files))
         /\ (pc = "check" => index = i + 1 \/ Len(results) > i)
  /\ failed =
       Cardinality({ i \in 1..Len(results) : ChecksumFails(rom_files[i]) })

\* a scan of two candidates returned an 'error' result for the first one,
\* which could not be opened, and another result for the second one
C11_Witness ==
  /\ ScanReturned
  /\ Len(rom_files) = 2
  /\ Len(results) = 2
  /\ ChecksumFails(rom_files[1])
  /\ results[1].status = "error"
  /\ results[2].status # "error"
  /\ results[2].filename = rom_files[2].name
  /\ failed = 1

(***************************************************************************)
(* Scans of folders with files that have vanished and of catalogs with a   *)
(* size attribute that is not a number                                     *)
(***************************************************************************)
\* a record whose size attribute is "1k"
G_BadSize ==
  Game(N_GameII,
       << Rom(<< <<"0", "0", "0", "0", "0", "0", "0", "5">> >>,
              << <<"1", "k">> >>, <<>>, <<>>) >>)

FaultDats ==
  { AbsentDat, Dat(<<G_Exact>>), Dat(<<G_BadSize>>),
    Dat(<<G_Exact, G_BadSize>>) }

\* "missing": the file was there when the folder was walked and is gone
\* when it is verified
FaultFiles ==
  { File(F_GameUSA, 1024, "ok", <<"S", "N", "E", "S">>),
    File(F_Other, 1536, "missing", <<"S", "N", "E", "S">>),
    File(F_Hack, 1024, "missing", <<"S", "N", "E", "S">>),
    File(F_Translation, 1024, "denied", <<"S", "N", "E", "S">>),
    File(F_Nes, 1024, "denied", INES_MAGIC) }

InitFault ==
  /\ dats \in { AllSystems(d) : d \in FaultDats }
  /\ folder \in DistinctSeqsUpTo(FaultFiles, MaxFiles)
  /\ cancel_check \in {"none", "flag"}
  /\ Fresh

SpecFault == InitFault /\ [][Next]_vars

\* the candidate verify_rom was last called on, once it has been called
Verified == progress # <<>>
LastFile == rom_files[Len(progress)]
\* the catalog load_database yields for the candidate's system
CatalogFor(rom_file) ==
  IF dats[detect_system(rom_file)].state = "ok"
    THEN index_games(<<>>, dats[detect_system(rom_file)].games)
    ELSE <<>>

C13_NothingEscapes ==
  /\ pc # "raised"
  /\ verdict.kind # "raise"

\* the backing file of the candidate's system is absent or is no XML
NoBackingFile(rom_file) ==
  dats[detect_system(rom_file)].state \in {"absent", "malformed"}

\* C14: with an absent or malformed backing file load_database returns the
\* empty catalog and raises nothing; every candidate whose name is not
\* flagged gets a 'no_database' result without being opened, and the scan
\* goes on to the following candidates.
C14_NoDatabaseResult ==
  /\ \A system \in DOMAIN dats :
       dats[system].state \in {"absent", "malformed"} =>
         /\ load_database(system, <<>>, dats).database = <<>>
         /\ load_database(system, databases, dats).database = <<>>
  /\ \A i \in 1..Len(results) :
       NoBackingFile(rom_files[i]) =>
         /\ results[i].filename = rom_files[i].name
         /\ results[i].status =
              IF detect_rom_hack(rom_files[i].name)[1]
                THEN "hack" ELSE "no_database"
         /\ (pc = "check" => index = i + 1 \/ Len(results) > i)
  /\ (Verified /\ NoBackingFile(LastFile) =>
        /\ verdict.kind = "return"
        /\ \A k \in 1..Len(verdict.io) : verdict.io[k] \in {"exists", "parse"})
  /\ ((\E i \in 1..Len(rom_files) : NoBackingFile(rom_files[i])) =>
        pc # "raised")
  /\ (ScanReturned /\ ~CancelSeen => Len(results) = Len(rom_files))

\* a scan of two candidates with a malformed backing file returned two
\* results, the first of them 'no_database'
C14_Witness ==
  /\ ScanReturned
  /\ Len(results) = 2
  /\ dats[detect_system(rom_files[1])].state = "malformed"
  /\ results[1].status = "no_database"
  /\ results[2].filename = rom_files[2].name

(***************************************************************************)
(* A caller that loads catalogs directly, while the backing files appear,  *)
(* change and disappear                                                    *)
(***************************************************************************)
CacheSystems == {"snes", "nes"}

CacheDats == { AbsentDat, MalformedDat, Dat(<<G_Exact>>), Dat(<<G_Near>>) }

InitCache ==
  /\ dats \in { AllSystems(d) : d \in CacheDats }
  /\ folder = <<>>
  /\ cancel_check = "none"
  /\ Fresh

\* one call load_database(system): lines 142-182
LoadDatabase ==
  /\ Len(calls) < MaxCalls
  /\ \E system \in CacheSystems :
       \E loaded \in {load_database(system, databases, dats)} :
         /\ databases' = loaded.databases
         /\ calls' = Append(calls, [system |-> system,
                                    database |-> loaded.database,
                                    io |-> loaded.io])
  /\ UNCHANGED << answer, health, convert,
                  threads, heap, refs, previous, dats, folder, cancel_check,
                  cancel_requested, pc, rom_files, index, results, verified,
                  has_header, unknown, failed, log, progress, verdict, polls,
                  requested_at >>

\* the environment writes, replaces or deletes the backing file of a system
ChangeBackingFile ==
  /\ Len(calls) < MaxCalls
  /\ \E system \in CacheSystems, dat \in CacheDats :
       /\ dat # dats[system]
       /\ dats' = [dats EXCEPT ![system] = dat]
  /\ UNCHANGED << answer, health, convert,
                  calls, threads, heap, refs, previous, folder, databases,
                  cancel_check, cancel_requested, pc, rom_files, index,
                  results, verified, has_header, unknown, failed, log,
                  progress, verdict, polls, requested_at >>

NextCache ==
  \/ LoadDatabase
  \/ ChangeBackingFile

SpecCache == InitCache /\ [][NextCache]_vars

\* the calls made for a system, and those of them that parsed the file
CallsFor(system) == { i \in 1..Len(calls) : calls[i].system = system }
ParsesFor(system) ==
  { i \in CallsFor(system) :
      \E k \in 1..Len(calls[i].io) : calls[i].io[k] = "parse" }

\* C15: the cache entry of a system is populated by the first
\* load_database(system) call and never changes afterwards; the backing
\* file is parsed at most once, and every later call returns the catalog
\* the first call returned, whatever has happened to the backing file.
C15_PopulatedOnce ==
  \A system \in CacheSystems :
    /\ Cardinality(ParsesFor(system)) <= 1
    /\ \A i \in CallsFor(system) :
         /\ system \in DOMAIN databases
         /\ databases[system] = calls[i].database
         /\ \A j \in CallsFor(system) : calls[j].database = calls[i].database

(***************************************************************************)
(* Two threads inside load_database of one CartridgeChecker.  The function *)
(* takes no lock, so the threads interleave between its statements.        *)
(***************************************************************************)
InitRace ==
  /\ dats \in { AllSystems(d) : d \in CacheDats }
  /\ folder = <<>>
  /\ cancel_check = "none"
  /\ Fresh

RaceUnchanged ==
  UNCHANGED << answer, health, convert,
               calls, previous, dats, folder, cancel_check, cancel_requested,
               pc, rom_files, index, results, verified, has_header, unknown,
               failed, log, progress, verdict, polls, requested_at >>

\* a new dict object
NewDict(system, catalog, parsed) ==
  [system |-> system, catalog |-> catalog, parsed |-> parsed]

\* line 133: thread t calls load_database(system)
Call(t) ==
  /\ threads[t].pc = "idle"
  /\ \E system \in CacheSystems :
       threads' = [threads EXCEPT ![t] = [@ EXCEPT !.pc = "check",
                                                   !.system = system]]
  /\ UNCHANGED <<heap, refs, databases>>
  /\ RaceUnchanged

\* lines 143-144: return the cached object if there is one
CheckCache(t) ==
  /\ threads[t].pc = "check"
  /\ threads' =
       [threads EXCEPT ![t] =
          IF @.system \in DOMAIN refs
            THEN [@ EXCEPT !.pc = "done",
                           !.returned = refs[threads[t].system]]
            ELSE [@ EXCEPT !.pc = "exists"]]
  /\ UNCHANGED <<heap, refs, databases>>
  /\ RaceUnchanged

\* lines 147-154: return a new empty dict if the backing file is absent
Exists(t) ==
  /\ threads[t].pc = "exists"
  /\ IF dats[threads[t].system].state = "absent"
       THEN /\ heap' = Append(heap, NewDict(threads[t].system, <<>>, FALSE))
            /\ threads' = [threads EXCEPT ![t] =
                             [@ EXCEPT !.pc = "done",
                                       !.returned = Len(heap) + 1]]
       ELSE /\ threads' = [threads EXCEPT ![t] = [@ EXCEPT !.pc = "parse"]]
            /\ UNCHANGED heap
  /\ UNCHANGED <<refs, databases>>
  /\ RaceUnchanged

\* lines 156-173 and 178-180: parse the backing file into a new dict; a
\* file that does not parse makes the function return another new dict
Parse(t) ==
  /\ threads[t].pc = "parse"
  /\ IF dats[threads[t].system].state = "malformed"
       THEN /\ heap' = Append(heap, NewDict(threads[t].system, <<>>, TRUE))
            /\ threads' = [threads EXCEPT ![t] =
                             [@ EXCEPT !.pc = "done",
                                       !.returned = Len(heap) + 1]]
       ELSE /\ heap' = Append(heap,
                         NewDict(threads[t].system,
                                 index_games(<<>>,
                                             dats[threads[t].system].games),
                                 TRUE))
            /\ threads' = [threads EXCEPT ![t] =
                             [@ EXCEPT !.pc = "store",
                                       !.database = Len(heap) + 1]]
  /\ UNCHANGED <<refs, databases>>
  /\ RaceUnchanged

\* line 176: self.databases[system] = database
Store(t) ==
  /\ threads[t].pc = "store"
  /\ refs' = (threads[t].system :> threads[t].database) @@ refs
  /\ databases' =
       (threads[t].system :> heap[threads[t].database].catalog) @@ databases
  /\ threads' = [threads EXCEPT ![t] = [@ EXCEPT !.pc = "return"]]
  /\ UNCHANGED heap
  /\ RaceUnchanged

\* line 182: return database
ReturnDatabase(t) ==
  /\ threads[t].pc = "return"
  /\ threads' = [threads EXCEPT ![t] =
                   [@ EXCEPT !.pc = "done",
                             !.returned = threads[t].database]]
  /\ UNCHANGED <<heap, refs, databases>>
  /\ RaceUnchanged

NextRace ==
  \E t \in Threads :
    \/ Call(t)
    \/ CheckCache(t)
    \/ Exists(t)
    \/ Parse(t)
    \/ Store(t)
    \/ ReturnDatabase(t)

SpecRace == InitRace /\ [][NextRace]_vars

\* the dict objects built by parsing the backing file of a system
ParsedFor(system) ==
  { h \in 1..Len(heap) : heap[h].system = system /\ heap[h].parsed }

\* C16: when two threads call load_database for the same system that is
\* not yet cached and whose backing file is a well-formed catalog, the
\* file is parsed exactly once and both callers receive the same cached
\* dict object.
C16_FirstLoadSerialized ==
  \A system \in CacheSystems :
    dats[system].state = "ok" =>
      /\ Cardinality(ParsedFor(system)) <= 1
      /\ \A t, u \in Threads :
           /\ threads[t].pc = "done"
           /\ threads[u].pc = "done"
           /\ threads[t].system = system
           /\ threads[u].system = system
           => /\ threads[t].returned = threads[u].returned
              /\ threads[t].returned = refs[system]
              /\ Cardinality(ParsedFor(system)) = 1

(***************************************************************************)
(* verify_rom called twice in a row on the same file                       *)
(***************************************************************************)
\* the second call: the file and the backing files are as they were, the
\* cache is as the first call left it
VerifyAgain ==
  /\ pc = "done"
  /\ \E call \in {verify_rom(folder[1], databases, dats)} :
        /\ verdict' = call.outcome
        /\ databases' = call.databases
  /\ previous' = verdict
  /\ pc' = "again"
  /\ UNCHANGED << answer, health, convert,
                  calls, threads, heap, refs, dats, folder, cancel_check,
                  cancel_requested, rom_files, index, results, verified,
                  has_header, unknown, failed, log, progress, polls,
                  requested_at >>

NextAgain ==
  \/ VerifyRom
  \/ VerifyAgain

SpecAgain == InitVerify /\ [][NextAgain]_vars

\* C17: two calls of verify_rom in a row on the same unchanged file, with
\* the backing file unchanged, return results with the same content (or
\* raise the same exception), although the first call may have parsed the
\* backing file into the cache and the second has read the cache.
C17_Idempotent ==
  pc = "again" =>
    /\ verdict.kind = previous.kind
    /\ verdict.value = previous.value

\* the first call parsed the backing file, the second did not, and both
\* returned a 'verified' result
C17_Witness ==
  /\ pc = "again"
  /\ previous.kind = "return"
  /\ previous.value.status = "verified"
  /\ \E k \in 1..Len(previous.io) : previous.io[k] = "parse"
  /\ \A k \in 1..Len(verdict.io) : verdict.io[k] # "parse"
  /\ verdict.value.status = "verified"

(***************************************************************************)
(* Scans of folders with .cue files and the track files they name          *)
(***************************************************************************)
F_Cue == <<"a", ".", "c", "u", "e">>
F_Track == <<"t", ".", "b", "i", "n">>
F_Cart == <<"g", ".", "s", "f", "c">>

\* a subdirectory of the scanned folder
SubDir == <<"/", "r", "/", "d">>

\* the lines of .cue files, as iterating the open file yields them
\* the usual form; the second line names no file
Cue_Plain ==
  << <<"F", "I", "L", "E", " ", "\"", "t", ".", "b", "i", "n", "\"", " ",
        "B", "I", "N", "A", "R", "Y", "\n">>,
     <<" ", " ", "T", "R", "A", "C", "K", " ", "0", "1", "\n">> >>

\* a track in the parent directory
Cue_Parent ==
  << <<"F", "I", "L", "E", " ", "\"", ".", ".", "/", "t", ".", "b", "i", "n",
        "\"", "\n">> >>

\* lowercase keyword, a track in the subdirectory d
Cue_Down ==
  << <<"f", "i", "l", "e", " ", "\"", ".", "/", "d", "/", "t", ".", "b", "i",
        "n", "\"", "\n">> >>

\* the texts of the .cue files
CueTexts ==
  { Cue_Plain, Cue_Parent, Cue_Down,
    \* no quoted string
    << <<"F", "I", "L", "E", " ", "t", ".", "b", "i", "n", "\n">> >>,
    \* two quoted strings on the line
    << <<"F", "I", "L", "E", " ", "\"", "g", ".", "s", "f", "c", "\"", " ",
          "\"", "t", ".", "b", "i", "n", "\"", "\n">> >>,
    \* a quoted string on a line without FILE
    << <<"T", "R", "A", "C", "K", " ", "\"", "t", ".", "b", "i", "n", "\"",
          "\n">> >>,
    \* a quote that is not closed before the end of the line
    << <<"F", "I", "L", "E", " ", "\"", "t", ".", "b", "i", "n", "\n">> >>,
    \* the same on a last line without a newline
    << <<"F", "I", "L", "E", " ", "\"", "t", ".", "b", "i", "n">> >>,
    \* an absolute path
    << <<"F", "I", "L", "E", " ", "\"", "/", "r", "/", "d", "/", "t", ".", "b",
          "i", "n", "\"", "\n">> >>,
    \* two FILE lines
    << <<"F", "I", "L", "E", " ", "\"", "t", ".", "b", "i", "n", "\"", "\n">>,
       <<"F", "I", "L", "E", " ", "\"", "g", ".", "s", "f", "c", "\"", "\n">> >> }

\* a file of the walk in directory dir
FileIn(dir, name, access, lines) ==
  [File(name, 1024, access, <<"F", "I", "L", "E">>)
     EXCEPT !.dir = dir, !.lines = lines]

\* the .cue files the folder itself may hold: any text, readable; one that
\* cannot be opened; one with an uppercase name
RootCues ==
  { FileIn(Root, F_Cue, "ok", text) : text \in CueTexts }
    \cup { FileIn(Root, F_Cue, "denied", Cue_Plain),
           FileIn(Root, <<"B", ".", "C", "U", "E">>, "ok", Cue_Plain) }

\* the .cue files the subdirectory may hold
SubCues ==
  { FileIn(SubDir, F_Cue, "ok", text) :
      text \in {Cue_Plain, Cue_Parent, Cue_Down} }
    \cup { FileIn(SubDir, F_Cue, "denied", Cue_Parent) }

\* the other files, in the order os.walk lists them
RootTracks ==
  << FileIn(Root, F_Track, "ok", <<>>), FileIn(Root, F_Cart, "ok", <<>>) >>
SubTracks == << FileIn(SubDir, F_Track, "ok", <<>>) >>

\* a folder with at most one .cue file in each directory and some of the
\* other files, in walk order
InitCue ==
  /\ dats = AllSystems(AbsentDat)
  /\ \E root_cue \in {<<>>} \cup { <<cue>> : cue \in RootCues },
        sub_cue \in {<<>>} \cup { <<cue>> : cue \in SubCues },
        R \in SUBSET (1..Len(RootTracks)), D \in SUBSET (1..Len(SubTracks)) :
       /\ Cardinality(R) + Cardinality(D) <= MaxFiles
       /\ folder =
            root_cue
              \o SelectSeq(RootTracks, LAMBDA f : \E i \in R : RootTracks[i] = f)
              \o sub_cue
              \o SelectSeq(SubTracks, LAMBDA f : \E i \in D : SubTracks[i] = f)
  /\ cancel_check \in {"none", "flag"}
  /\ Fresh

SpecCue == InitCue /\ [][Next]_vars

\* the directories and the name an absolute path leads through: "." and
\* empty components dropped, ".." taking one directory back
RECURSIVE Walked(_, _)
Walked(comps, stack) ==
  IF comps = <<>> THEN stack
  ELSE IF Head(comps) \in {<<>>, <<".">>} THEN Walked(Tail(comps), stack)
  ELSE IF Head(comps) = <<".", ".">>
    THEN Walked(Tail(comps),
                IF stack = <<>> THEN <<>>
                ELSE SubSeq(stack, 1, Len(stack) - 1))
  ELSE Walked(Tail(comps), Append(stack, Head(comps)))

Location(dir, name) ==
  IF name # <<>> /\ name[1] = "/"
    THEN Walked(split(name, "/"), <<>>)
    ELSE Walked(split(dir, "/") \o split(name, "/"), <<>>)

\* the .cue files of the scanned folder, and those that can be read
Cues ==
  { folder[i] : i \in { j \in 1..Len(folder) :
                          EndsWith(Lower(folder[j].name),
                                   <<".", "c", "u", "e">>) } }
ReadableCues == { cue \in Cues : cue.access = "ok" }

\* the first quoted string of a line: what follows the first quote, up to
\* the next quote or the end of the line
FirstQuoted(line) ==
  LET quotes == { k \in 1..Len(line) : line[k] = "\"" }
  IN IF quotes = {} THEN {}
     ELSE LET a == CHOOSE k \in quotes : \A j \in quotes : k <= j
              later == { k \in quotes : k > a }
              b == IF later = {} THEN Len(line) + 1
                   ELSE CHOOSE k \in later : \A j \in later : k <= j
          IN { SubSeq(line, a + 1, b - 1) }

\* the places the FILE lines of a .cue file name
NamedBy(cue) ==
  UNION { { Location(cue.dir, bin_file) :
              bin_file \in FirstQuoted(cue.lines[k]) } :
          k \in { j \in 1..Len(cue.lines) :
                    Contains(Upper(cue.lines[j]), <<"F", "I", "L", "E">>) } }

Referenced(f, cues) ==
  \E cue \in cues : Location(f.dir, f.name) \in NamedBy(cue)

\* the files that are candidates when the files the given .cue files name
\* are set aside
CandidatesBut(cues) ==
  SelectSeq(folder,
    LAMBDA f : has_rom_extension(f.name) /\ ~Referenced(f, cues))

\* C18 as the specification states it: a file named by a FILE line of any
\* .cue file under the scanned folder is no candidate and has no result;
\* every other file with a listed extension is a candidate.
C18_AsStated ==
  pc # "idle" =>
    /\ rom_files = CandidatesBut(Cues)
    /\ \A i \in 1..Len(results) : results[i].filename = rom_files[i].name

\* C18: a file whose normalized path is the path named by the first quoted
\* string of a FILE line of a .cue file under the scanned folder that can
\* be opened and read, resolved against the directory of the .cue file, is
\* no candidate and has no result; every other file with a listed
\* extension is a candidate, in walk order.  A .cue file that cannot be
\* opened is passed over and sets nothing aside.
C18_CueTracksExcluded ==
  pc # "idle" =>
    /\ rom_files = CandidatesBut(ReadableCues)
    /\ \A i \in 1..Len(results) : results[i].filename = rom_files[i].name
    /\ \A i \in 1..Len(results) : ~Referenced(rom_files[i], ReadableCues)

\* a .cue file in the subdirectory names "../t.bin": the scan returned with
\* a result for t.bin of the subdirectory and none for t.bin of the folder
C18_Witness ==
  /\ ScanReturned
  /\ FileIn(SubDir, F_Cue, "ok", Cue_Parent) \in ReadableCues
  /\ \E i \in 1..Len(folder) : folder[i] = FileIn(Root, F_Track, "ok", <<>>)
  /\ rom_files = << FileIn(SubDir, F_Track, "ok", <<>>) >>
  /\ Len(results) = 1
  /\ results[1].filename = F_Track

\* the operations on files that change nothing
ReadOnlyOps == {"exists", "parse", "getsize", "read", "read_head", "read_skip"}

\* the latest verify_rom call reported a removable header
HeaderReported ==
  Verified /\ verdict.kind = "return" /\ verdict.value.status = "has_header"

\* C19: check_folder, verify_rom and has_external_header leave every file
\* of the scanned folder as it was: no step of a scan changes the folder,
\* every operation of a verify_rom call is a read, and a file reported with
\* a removable header has only been read a second time, past the header.
C19_NonDestructive ==
  /\ [][folder' = folder]_vars
  /\ [](\A k \in 1..Len(verdict.io) : verdict.io[k] \in ReadOnlyOps)
  /\ [](HeaderReported =>
          /\ verdict.io[Len(verdict.io)] = "read_skip"
          /\ \E k \in 1..Len(folder) :
               /\ folder[k] = LastFile
               /\ folder[k].size % SNES_BLOCK = SNES_HEADER)

\* a scan returned after reporting a removable header on a file that is
\* still in the folder with its header
C19_Witness ==
  /\ ScanReturned
  /\ HeaderReported
  /\ has_header = 1
  /\ \E k \in 1..Len(folder) :
       /\ folder[k] = LastFile
       /\ folder[k].size = 1536
       /\ folder[k].name = results[Len(results)].filename

(***************************************************************************)
(* The partial-digest tier                                                 *)
(***************************************************************************)
\* how many of the three digests recorded in a catalog entry agree with the
\* digests of the file; a digest that is not recorded does not agree
Agreeing(e) ==
  Cardinality({ pair \in { <<"crc32", e.crc, FileCrc>>,
                           <<"md5", e.md5, FileMd5>>,
                           <<"sha1", e.sha1, FileSha1>> } :
                  pair[2] # <<>> /\ pair[2] = pair[3] })

\* the positions of the catalog entries with two or more agreeing digests
PartialEntries ==
  { i \in 1..Len(TheCatalog) : Agreeing(TheCatalog[i]) >= 2 }

\* C20: when no exact and no header-stripped match returned first, the
\* catalog entries are taken in iteration order and the first entry with
\* two or more agreeing digests makes the file 'probable', with that
\* entry's name and the message 'N/3 checksums match' where N is that
\* entry's own count, also when a later entry agrees on more digests; a
\* digest that is empty in the entry never counts.  Without such an entry
\* the file is not 'probable'.
C20_FirstPartialEntry ==
  ReachedTiers =>
    LET result == verdict.value
        above == Some(IsExact) \/ Some(IsStripped)
    IN /\ (result.status = "probable" <=> PartialEntries # {} /\ ~above)
       /\ (result.status = "probable" =>
             LET first == CHOOSE i \in PartialEntries :
                            \A j \in PartialEntries : i <= j
             IN /\ result.game_name = TheCatalog[first].name
                /\ result.message = <<"Probable Good Dump",
                                      Agreeing(TheCatalog[first]),
                                      "/3 checksums match">>
                /\ result.confidence = "99%")

\* the first entry of the catalog agrees on two digests, the second on all
\* three, and the file came back 'probable' with '2/3 checksums match'
C20_Witness ==
  /\ ReachedTiers
  /\ Len(TheCatalog) = 2
  /\ Agreeing(TheCatalog[1]) = 2
  /\ Agreeing(TheCatalog[2]) = 3
  /\ verdict.value.status = "probable"
  /\ verdict.value.game_name = TheCatalog[1].name
  /\ verdict.value.message = <<"Probable Good Dump", 2, "/3 checksums match">>

(***************************************************************************)
(* The name tiers and the last tier                                        *)
(***************************************************************************)
\* one verify_rom call on catalogs whose records share no digest with the
\* file: names that are equal, close and far, sizes within and beyond 512
\* bytes of the file, and files of a system with and without a header
\* convention and of no system
InitNames ==
  LET crc(d) == << <<"0", "0", "0", "0", "0", "0", "0", d>> >>
      games == { G_Near, G_OneDigest, G_NoSize,
                 Game(N_GameEurope, << Rom(crc("6"), <<Str_1536>>,
                                           <<>>, <<>>) >>),
                 Game(N_GameJapan, << Rom(crc("7"), <<Str_1024>>,
                                          <<>>, <<>>) >>),
                 Game(N_OtherTitle, << Rom(crc("8"), <<Str_1024>>,
                                           <<>>, <<>>) >>) }
  IN /\ dats \in { AllSystems(Dat(q)) : q \in DistinctSeqsUpTo(games, 2) }
     /\ folder \in { <<File(name, size, "ok", <<"G", "A", "M", "E">>)>> :
                       name \in {F_GameUSA, F_Gb, F_Other, F_Text},
                       size \in {1024, 1536} }
     /\ cancel_check = "none"
     /\ Fresh

SpecNames == InitNames /\ [][NextVerify]_vars

\* the similarity of the file's name to the name of the catalog entry at
\* position i, and whether the recorded size is within 512 bytes of the file
SimilarityAt(i) == similarity(TheFile.name, TheCatalog[i].name)
NearSize(i) ==
  ParseInt(TheCatalog[i].size).value - TheFile.size \in -512..512
NearEntries == { i \in 1..Len(TheCatalog) : NearSize(i) }

\* C21: a 'likely' verdict names an entry whose recorded size is within 512
\* bytes of the file size and whose name similarity is at least 0.8 and at
\* least that of every other entry within 512 bytes; among entries tied for
\* the best similarity it is the first in catalog order; and there is no
\* 'likely' verdict when no entry within 512 bytes reaches 0.8.
C21_LikelyIsBestNearEntry ==
  ReachedTiers /\ verdict.value.status = "likely" =>
    \E i \in NearEntries :
      /\ verdict.value.game_name = TheCatalog[i].name
      /\ verdict.value.message =
           <<"Likely Match - Name & Size Match", SimilarityAt(i)>>
      /\ verdict.value.confidence = "95%"
      /\ FracGE(SimilarityAt(i), <<4, 5>>)
      /\ \A j \in NearEntries : FracGE(SimilarityAt(i), SimilarityAt(j))
      /\ \A j \in NearEntries : j < i => FracGT(SimilarityAt(i), SimilarityAt(j))

\* the first entry is within 512 bytes and similar enough, the second is
\* within 512 bytes and more similar, and the second is reported
C21_Witness ==
  /\ ReachedTiers
  /\ verdict.value.status = "likely"
  /\ Len(TheCatalog) = 2
  /\ NearEntries = {1, 2}
  /\ FracGE(SimilarityAt(1), <<4, 5>>)
  /\ FracGT(SimilarityAt(2), SimilarityAt(1))
  /\ verdict.value.game_name = TheCatalog[2].name

\* the positions of the entries whose name similarity is at least 0.7
NamedEntries ==
  { i \in 1..Len(TheCatalog) : FracGE(SimilarityAt(i), <<7, 10>>) }

\* some tier above the name-only tier has an entry that qualifies
AboveNameOnly ==
  \/ Some(IsExact)
  \/ Some(IsStripped)
  \/ PartialEntries # {}
  \/ \E i \in NearEntries : FracGE(SimilarityAt(i), <<4, 5>>)

\* C22: when no higher tier produced a verdict and some entry's name is at
\* least 0.7 similar to the file's, verify_rom returns 'name_match' with
\* confidence '80%' and the name of the first such entry in catalog order,
\* whatever the sizes and also when a later entry is more similar; and
\* 'name_match' is returned in no other case.
C22_FirstNamedEntry ==
  ReachedTiers =>
    /\ (verdict.value.status = "name_match"
          <=> NamedEntries # {} /\ ~AboveNameOnly)
    /\ (verdict.value.status = "name_match" =>
          LET first == CHOOSE i \in NamedEntries :
                         \A j \in NamedEntries : i <= j
          IN /\ verdict.value.game_name = TheCatalog[first].name
             /\ verdict.value.message =
                  <<"Name Match - Checksum Differs", SimilarityAt(first)>>
             /\ verdict.value.confidence = "80%")

\* the first entry is 0.7 similar or more, the second is more similar and
\* neither is within 512 bytes of the file: the first is reported
C22_Witness ==
  /\ ReachedTiers
  /\ verdict.value.status = "name_match"
  /\ Len(TheCatalog) = 2
  /\ NearEntries = {}
  /\ NamedEntries = {1, 2}
  /\ FracGT(SimilarityAt(2), SimilarityAt(1))
  /\ verdict.value.game_name = TheCatalog[1].name

\* C23: a readable file of a recognized system whose name is not flagged,
\* with a non-empty catalog in which no entry qualifies at the exact, the
\* header-stripped, the partial-digest, the name+size or the name-only
\* tier, comes back 'unknown' with the crc32 computed for the file and
\* with no game name and no confidence; a file whose extension belongs to
\* no system comes back 'unknown' with system None and no crc32.
C23_ExhaustedIsUnknown ==
  /\ (ReachedTiers /\ ~AboveNameOnly /\ NamedEntries = {} =>
        /\ verdict.value.status = "unknown"
        /\ verdict.value.message = "Unknown ROM (not in database)"
        /\ verdict.value.system = TheSystem
        /\ verdict.value.filename = TheFile.name
        /\ "crc32" \in DOMAIN verdict.value
        /\ verdict.value.crc32 = FileCrc
        /\ "game_name" \notin DOMAIN verdict.value
        /\ "confidence" \notin DOMAIN verdict.value)
  /\ (pc = "done" /\ TheSystem = None =>
        /\ verdict.kind = "return"
        /\ verdict.value.status = "unknown"
        /\ verdict.value.message = "Unknown file type"
        /\ verdict.value.system = None
        /\ verdict.value.filename = TheFile.name
        /\ "crc32" \notin DOMAIN verdict.value
        /\ verdict.io = <<>>)

\* a file went through a catalog of two entries, none of which qualifies
\* at any tier, and came back 'unknown' with its crc32
C23_Witness ==
  /\ ReachedTiers
  /\ Len(TheCatalog) = 2
  /\ ~AboveNameOnly
  /\ NamedEntries = {}
  /\ verdict.value.status = "unknown"
  /\ verdict.value.crc32 = FileCrc

(***************************************************************************)
(* A caller of the three classification functions: has_external_header,    *)
(* detect_rom_hack and detect_system.  The functions keep no state, so a   *)
(* behaviour is one call.                                                  *)
(***************************************************************************)
InitClassify ==
  /\ dats = AllSystems(AbsentDat)
  /\ folder = <<>>
  /\ cancel_check = "none"
  /\ Fresh

ClassifyUnchanged ==
  UNCHANGED << health, convert, calls, threads, heap, refs, previous, dats,
               folder, databases, cancel_check, cancel_requested, pc,
               rom_files, index, results, verified, has_header, unknown,
               failed, log, progress, verdict, polls, requested_at >>

\* has_external_header(rom_file, system) on files of several sizes and
\* first bytes, readable, unreadable and gone, for every system of the table
HasExternalHeader ==
  /\ answer.function = "none"
  /\ \E size \in {0, 512, 1000, 1024, 1536, 2048},
        head \in {INES_MAGIC, <<"N", "E", "S", "x">>, <<"S", "N", "E", "S">>},
        access \in {"ok", "denied", "missing"},
        system \in Systems :
       \E rom_file \in {File(F_Nes, size, access,
                             IF size = 0 THEN <<>> ELSE head)} :
         answer' = [function |-> "has_external_header",
                    rom_file |-> rom_file,
                    system |-> system,
                    returned |-> has_external_header(rom_file, system)]
  /\ ClassifyUnchanged

\* detect_rom_hack(filename) on names with no marker, with one and with
\* several
DetectRomHack ==
  /\ answer.function = "none"
  /\ \E filename \in FileNames \cup {
        <<"A", " ", "[", "T", "+", "E", "n", "g", "]", " ", "(", "H", "a",
          "c", "k", ")", " ", "v", "1", ".", "1", ".", "s", "f", "c">>,
        <<"A", " ", "(", "H", "a", "c", "k", ")", " ", "b", "e", "t", "a",
          ".", "s", "f", "c">>,
        <<"A", " ", "v", "1", ".", "1", " ", "(", "R", "e", "v", " ", "A",
          ")", ".", "s", "f", "c">>,
        <<"A", " ", "(", "P", "r", "o", "t", "o", "t", "y", "p", "e", ")",
          ".", "s", "f", "c">>,
        <<"A", " ", "P", "r", "e", "v", "i", "e", "w", ".", "s", "f", "c">>,
        <<"A", " ", "D", "E", "M", "O", ".", "S", "F", "C">>,
        <<"A", " ", "T", "R", "A", "N", "S", "L", "A", "T", "E", "D", ".",
          "s", "f", "c">>,
        <<"A", " ", "T", "e", "s", "t", ".", "s", "f", "c">> } :
       answer' = [function |-> "detect_rom_hack",
                  filename |-> filename,
                  returned |-> detect_rom_hack(filename)]
  /\ ClassifyUnchanged

\* detect_system(rom_file) on a file of every listed extension, in lower
\* and in upper case, and on the files of the other specifications
DetectSystem ==
  /\ answer.function = "none"
  /\ \E name \in FileNames
                 \cup UNION { { <<"a">> \o SYSTEM_EXTENSIONS[i][2][k] :
                                 k \in 1..Len(SYSTEM_EXTENSIONS[i][2]) } :
                               i \in 1..Len(SYSTEM_EXTENSIONS) }
                 \cup { <<"a">> \o Upper(SYSTEM_EXTENSIONS[i][2][1]) :
                          i \in 1..Len(SYSTEM_EXTENSIONS) }
                 \cup { <<"a">>, <<"a", ".", "b", ".", "i", "s", "o">> } :
       answer' = [function |-> "detect_system",
                  rom_file |-> File(name, 1024, "ok", <<>>),
                  returned |-> detect_system(File(name, 1024, "ok", <<>>))]
  /\ ClassifyUnchanged

NextClassify ==
  \/ HasExternalHeader
  \/ DetectRomHack
  \/ DetectSystem

SpecClassify == InitClassify /\ [][NextClassify]_vars

(***************************************************************************)
(* Properties of the classification functions                              *)
(***************************************************************************)
\* the call recorded in answer
Asked(function) == answer.function = function

\* C24: has_external_header answers true for snes exactly when the size of
\* the file leaves 512 modulo 1024, true for nes exactly when the first four
\* bytes of the file are the iNES signature, and for every other system,
\* those of header size 0 included, false without touching the file
C24_HeaderBySizeOrMagic ==
  Asked("has_external_header") =>
    LET rom_file == answer.rom_file
        system == answer.system
        returned == answer.returned
    IN /\ system = "snes" =>
            (returned.value = "True" <=>
               rom_file.access # "missing" /\ rom_file.size % 1024 = 512)
       /\ system = "nes" =>
            (returned.value = "True" <=>
               /\ rom_file.access = "ok"
               /\ rom_file.size >= 4
               /\ rom_file.head = <<"N", "E", "S", "^Z">>)
       /\ system \notin {"snes", "nes"} =>
            returned.value = "False" /\ returned.io = <<>>

C24_Witness ==
  /\ Asked("has_external_header")
  /\ answer.system = "snes"
  /\ answer.rom_file.size = 1536
  /\ answer.rom_file.access = "ok"
  /\ answer.returned.value = "True"

\* C25: detect_rom_hack reports a translation when the name holds a
\* translation marker, else a hack when it holds a hack marker, else a
\* modified file when it holds a version marker and neither 'rev' nor
\* 'prototype', and otherwise does not flag the file
C25_HackPriority ==
  Asked("detect_rom_hack") =>
    LET name == Lower(answer.filename)
        translation == AnyPattern(translation_patterns, name)
        hack == AnyPattern(hack_patterns, name)
        version == /\ AnyPattern(version_patterns, name)
                   /\ ~Contains(name, <<"r", "e", "v">>)
                   /\ ~Contains(name,
                                <<"p", "r", "o", "t", "o", "t", "y", "p", "e">>)
        returned == answer.returned
    IN /\ translation => returned = <<TRUE, "translation", "95%">>
       /\ ~translation /\ hack => returned = <<TRUE, "hack", "90%">>
       /\ ~translation /\ ~hack /\ version =>
            returned = <<TRUE, "modified", "80%">>
       /\ ~translation /\ ~hack /\ ~version => returned[1] = FALSE

C25_Witness ==
  /\ Asked("detect_rom_hack")
  /\ AnyPattern(translation_patterns, Lower(answer.filename))
  /\ AnyPattern(hack_patterns, Lower(answer.filename))
  /\ AnyPattern(version_patterns, Lower(answer.filename))
  /\ answer.returned[2] = "translation"

\* the systems whose list in SYSTEM_EXTENSIONS holds the extension, as
\* positions in the table
ListedFor(ext) ==
  { i \in 1..Len(SYSTEM_EXTENSIONS) : InList(SYSTEM_EXTENSIONS[i][2], ext) }

\* the catalog family of a system
Family(system) == IF system \in REDUMP_SYSTEMS THEN "Redump" ELSE "No-Intro"

\* detect_system answered the first system of the table that lists the
\* lowercased extension of the file, and nothing when no system lists it
FirstListed ==
  LET listed == ListedFor(Lower(splitext(answer.rom_file.name)))
  IN IF listed = {} THEN answer.returned = None
     ELSE \E i \in listed :
            /\ \A j \in listed : i <= j
            /\ answer.returned = SYSTEM_EXTENSIONS[i][1]

\* C26, as stated: the systems that list the extension of a file belong to
\* pairwise distinct catalog families, and detect_system answers the first
\* of them in table order
C26_AsStated ==
  Asked("detect_system") =>
    LET listed == ListedFor(Lower(splitext(answer.rom_file.name)))
    IN /\ \A i, j \in listed :
            i # j => Family(SYSTEM_EXTENSIONS[i][1])
                       # Family(SYSTEM_EXTENSIONS[j][1])
       /\ FirstListed

\* C26: an extension is listed for more than one system only among the
\* Redump systems, never for two No-Intro systems and never across the two
\* families, and detect_system answers the first system in table order that
\* lists the lowercased extension
C26_SharedWithinRedump ==
  Asked("detect_system") =>
    LET listed == ListedFor(Lower(splitext(answer.rom_file.name)))
    IN /\ \A i, j \in listed :
            i # j => /\ SYSTEM_EXTENSIONS[i][1] \in REDUMP_SYSTEMS
                     /\ SYSTEM_EXTENSIONS[j][1] \in REDUMP_SYSTEMS
       /\ FirstListed

C26_Witness ==
  /\ Asked("detect_system")
  /\ splitext(answer.rom_file.name) = <<".", "I", "S", "O">>
  /\ Cardinality(ListedFor(<<".", "i", "s", "o">>)) > 1
  /\ answer.returned = "ps1"

(***************************************************************************)
(* The counters of check_folder                                            *)
(***************************************************************************)
\* the four counters, in the order check_folder returns them
Counters == <<verified, has_header, unknown, failed>>

\* C27: at every point of a scan the four counters add up to the number of
\* results, and a step that appends a result adds one to exactly one of the
\* counters and leaves the other three alone, while a step that appends none
\* leaves all four alone
C27_CountersMatchResults ==
  /\ [](verified + has_header + unknown + failed = Len(results))
  /\ [][ /\ Len(results') \in {Len(results), Len(results) + 1}
         /\ Len(results') = Len(results) => Counters' = Counters
         /\ Len(results') = Len(results) + 1 =>
              \E k \in 1..4 :
                /\ Counters'[k] = Counters[k] + 1
                /\ \A j \in (1..4) \ {k} : Counters'[j] = Counters[j] ]_vars

C27_Witness ==
  /\ pc = "done"
  /\ Len(results) = 2
  /\ verified = 1
  /\ unknown = 1
  /\ \E i \in 1..2 : results[i].status = "hack"

(***************************************************************************)
(* ROMHealthChecker: the CHD phase, the CUE/BIN phase and the cartridge    *)
(* phase of check_folder                                                   *)
(***************************************************************************)
\* s.strip()
RECURSIVE strip(_)
strip(s) ==
  LET space == {" ", "\n", "\t", "\r"}
  IN IF s = <<>> THEN s
     ELSE IF s[1] \in space THEN strip(Tail(s))
     ELSE IF s[Len(s)] \in space THEN strip(SubSeq(s, 1, Len(s) - 1))
     ELSE s

\* parse_cue_file(cue_file): the names between the first two quotes of the
\* lines that start with FILE, in file order; [] when the file cannot be
\* opened
parse_cue_file(cue_file) ==
  IF cue_file.access # "ok" THEN <<>>
  ELSE LET lines == [k \in 1..Len(cue_file.lines) |->
                       strip(cue_file.lines[k])]
           named == SelectSeq(AsSeq(lines),
                      LAMBDA line :
                        /\ OccursAt(Upper(line), <<"F", "I", "L", "E">>, 1)
                        /\ Len(split(line, "\"")) >= 2)
       IN AsSeq([k \in 1..Len(named) |-> split(named[k], "\"")[2]])

\* verify_cue_bin(cue_file) in a folder with the given files: success, the
\* kind of message, and the details as <<kind, bin_file>>
verify_cue_bin(cue_file, files) ==
  LET cue_dir == dirname(full_path(cue_file))
      bin_files == parse_cue_file(cue_file)
      present == { i \in 1..Len(files) : files[i].access # "missing" }
      \* os.path.exists(bin_path), else the first name of os.listdir that
      \* is equal when both are lowercased; 0 when there is none
      located(bin_file) ==
        LET exact == { i \in present :
                         normpath(full_path(files[i]))
                           = normpath(join(cue_dir, bin_file)) }
            folded == { i \in present :
                          /\ files[i].dir = cue_dir
                          /\ Lower(files[i].name) = Lower(bin_file) }
        IN IF exact # {} THEN CHOOSE i \in exact : \A j \in exact : i <= j
           ELSE IF folded # {}
             THEN CHOOSE i \in folded : \A j \in folded : i <= j
           ELSE 0
      detail(bin_file) ==
        IF located(bin_file) = 0 THEN <<"Missing", bin_file>>
        ELSE IF files[located(bin_file)].size = 0
          THEN <<"Empty file", bin_file>>
        ELSE <<"Found", bin_file>>
      details == AsSeq([k \in 1..Len(bin_files) |-> detail(bin_files[k])])
      missing == SelectSeq(details, LAMBDA d : d[1] = "Missing")
      found == SelectSeq(details, LAMBDA d : d[1] = "Found")
  IN IF bin_files = <<>>
       THEN [success |-> FALSE, details |-> <<>>,
             message |-> <<"Could not parse CUE file or no BIN files">>]
     ELSE IF missing # <<>>
       THEN [success |-> FALSE, details |-> details,
             message |-> <<Len(missing), "BIN file(s) missing or unreadable">>]
     ELSE IF found # <<>>
       THEN [success |-> TRUE, details |-> details,
             message |-> <<"All", Len(found), "BIN file(s) found and readable">>]
     ELSE [success |-> FALSE, details |-> details,
           message |-> <<"No BIN files could be verified">>]

\* the files of the walk whose lowercased name ends with the suffix
WithSuffix(files, suffix) ==
  SelectSeq(files, LAMBDA f : EndsWith(Lower(f.name), suffix))

\* check_folder_cue_bin(folder): one result for each .cue file
check_folder_cue_bin(files) ==
  LET cue_files == WithSuffix(files, <<".", "c", "u", "e">>)
  IN AsSeq([k \in 1..Len(cue_files) |->
       LET call == verify_cue_bin(cue_files[k], files)
       IN [file |-> cue_files[k].name,
           path |-> full_path(cue_files[k]),
           status |-> IF call.success THEN "verified" ELSE "failed",
           message |-> call.message,
           details |-> call.details]])

\* check_folder_chd(folder): one result for each .chd file, chdman having
\* accepted the files at the positions in accepted
check_folder_chd(files, accepted) ==
  LET chd_files == WithSuffix(files, <<".", "c", "h", "d">>)
  IN AsSeq([k \in 1..Len(chd_files) |->
       [file |-> chd_files[k].name,
        path |-> full_path(chd_files[k]),
        status |-> IF k \in accepted THEN "verified" ELSE "failed"]])

\* the number of results with the status
Tally(list, status) ==
  Len(SelectSeq(list, LAMBDA r : r.status = status))

\* the caller's cancel_check is set and answers true
Cancelled == cancel_check = "flag" /\ cancel_requested

\* the track files and other files of a folder with disc images
HealthTracks ==
  { <<>> } \cup { << [FileIn(Root, F_Track, "ok", <<>>) EXCEPT !.size = s] >> :
                    s \in {0, 1024} }
HealthSecond ==
  { <<>> } \cup { << [FileIn(Root, <<"u", ".", "b", "i", "n">>, access, <<>>)
                        EXCEPT !.size = s] >> :
                    s \in {0, 1024}, access \in {"ok", "denied"} }

\* the texts of the .cue files
HealthCueTexts ==
  {
      \* one track
      << <<"F", "I", "L", "E", " ", "\"", "t", ".", "b", "i", "n", "\"", " ", "B",
           "I", "N", "A", "R", "Y", "\n">>,
         <<" ", " ", "T", "R", "A", "C", "K", " ", "0", "1", " ", "M", "O", "D", "E",
           "2", "/", "2", "3", "5", "2", "\n">> >>,
      \* two tracks
      << <<"F", "I", "L", "E", " ", "\"", "t", ".", "b", "i", "n", "\"", " ", "B",
           "I", "N", "A", "R", "Y", "\n">>,
         <<"F", "I", "L", "E", " ", "\"", "u", ".", "b", "i", "n", "\"", " ", "B",
           "I", "N", "A", "R", "Y", "\n">> >>,
      \* the same track twice
      << <<"F", "I", "L", "E", " ", "\"", "t", ".", "b", "i", "n", "\"", " ", "B",
           "I", "N", "A", "R", "Y", "\n">>,
         <<"F", "I", "L", "E", " ", "\"", "t", ".", "b", "i", "n", "\"", " ", "B",
           "I", "N", "A", "R", "Y", "\n">> >>,
      \* indented, lowercase keyword, the name in another case
      << <<" ", " ", "f", "i", "l", "e", " ", "\"", "T", ".", "B", "I", "N", "\"",
           " ", "b", "i", "n", "a", "r", "y", "\n">> >>,
      \* no quoted name
      << <<"F", "I", "L", "E", " ", "t", ".", "b", "i", "n", " ", "B", "I", "N", "A",
           "R", "Y", "\n">> >>,
      \* a quote that is not closed
      << <<"F", "I", "L", "E", " ", "\"", "u", ".", "b", "i", "n", "\n">> >>,
      \* no FILE line
      << <<"R", "E", "M", " ", "\"", "t", ".", "b", "i", "n", "\"", "\n">> >> }

\* a folder with at most one .chd file, one .cue file, two track files and
\* one cartridge file, and a caller that passes no cancel_check
InitHealth ==
  /\ dats = AllSystems(AbsentDat)
  /\ \E chd \in { <<>>, << FileIn(Root, <<"a", ".", "c", "h", "d">>,
                                  "ok", <<>>) >> },
        cue \in { <<>>, << FileIn(Root, F_Cue, "denied", Cue_Plain) >> }
                  \cup { << FileIn(Root, F_Cue, "ok", text) >> :
                           text \in HealthCueTexts },
        track \in HealthTracks,
        second \in HealthSecond,
        cart \in { <<>>, << FileIn(Root, F_Cart, "ok", <<>>) >> } :
       folder = chd \o cue \o cart \o track \o second
  /\ cancel_check = "none"
  /\ Fresh

HealthUnchanged ==
  UNCHANGED << answer, convert, calls, threads, heap, refs, previous, dats,
               folder, databases, cancel_check, cancel_requested, pc,
               rom_files, index, results, verified, has_header, unknown,
               failed, log, progress, verdict, polls, requested_at >>

\* rom_health.py lines 349-372: the results dict and the CHD phase; chdman
\* accepts or rejects each file
CheckFolderChd ==
  /\ health.pc = "idle"
  /\ \E accepted \in
          SUBSET (1..Len(WithSuffix(folder, <<".", "c", "h", "d">>))) :
       \E chd_results \in {check_folder_chd(folder, accepted)} :
          health' = [pc |-> IF Cancelled THEN "returned" ELSE "cue",
                     chd_verified |-> Tally(chd_results, "verified"),
                     chd_failed |-> Tally(chd_results, "failed"),
                     cue_verified |-> 0,
                     cue_failed |-> 0,
                     cart_verified |-> 0,
                     cart_has_header |-> 0,
                     cart_unknown |-> 0,
                     cart_failed |-> 0,
                     all_results |-> chd_results,
                     error |-> None]
  /\ HealthUnchanged

\* lines 374-385: the CUE/BIN phase
CheckFolderCueBin ==
  /\ health.pc = "cue"
  /\ \E cue_results \in {check_folder_cue_bin(folder)} :
       health' = [health EXCEPT
                    !.pc = IF Cancelled THEN "returned" ELSE "cart",
                    !.cue_verified = Tally(cue_results, "verified"),
                    !.cue_failed = Tally(cue_results, "failed"),
                    !.all_results = health.all_results \o cue_results]
  /\ HealthUnchanged

\* lines 391-393: the call of CartridgeChecker.check_folder, step by step
CheckCartridges ==
  /\ health.pc = "cart"
  /\ \/ StartScan
     \/ CheckCancel
     \/ VerifyFile

\* lines 391-401: the call has ended.  An exception of the scan goes on to
\* the caller; a returned tuple has five members and is unpacked into six
\* names, which raises ValueError before any key of the dict is assigned.
UnpackCartridges ==
  /\ health.pc = "cart"
  /\ pc \in {"done", "raised"}
  /\ health' = [health EXCEPT
                  !.pc = "raised",
                  !.error = IF pc = "raised" THEN verdict.value
                            ELSE "ValueError"]
  /\ HealthUnchanged

NextHealth ==
  \/ CheckFolderChd
  \/ CheckFolderCueBin
  \/ CheckCartridges
  \/ UnpackCartridges

SpecHealth == InitHealth /\ [][NextHealth]_vars

(***************************************************************************)
(* Properties of the health check                                          *)
(***************************************************************************)
\* ROMHealthChecker.check_folder has ended, by a return or by an exception
HealthEnded == health.pc \in {"returned", "raised"}

\* the results of the CUE/BIN phase, once it has run
CueResults ==
  IF health.pc \in {"cart", "returned", "raised"}
    THEN SelectSeq(health.all_results, LAMBDA r : "details" \in DOMAIN r)
    ELSE <<>>

\* C28, as stated: a health check that is never cancelled ends by returning
\* the dict, in which the four cartridge counts are those of the cartridge
\* scan and all_results is the CHD results, then the CUE results, then the
\* cartridge results; it does not end by an exception
C28_AsStated ==
  HealthEnded /\ ~cancel_requested =>
    /\ health.pc = "returned"
    /\ health.cart_verified = verified
    /\ health.cart_has_header = has_header
    /\ health.cart_unknown = unknown
    /\ health.cart_failed = failed
    /\ Len(health.all_results)
         = health.chd_verified + health.chd_failed
             + health.cue_verified + health.cue_failed + Len(results)
    /\ SubSeq(health.all_results,
              Len(health.all_results) - Len(results) + 1,
              Len(health.all_results)) = results

\* C29, as stated: a .cue file is reported as verified only if every track
\* file it names was found with a size other than zero
C29_AsStated ==
  \A k \in 1..Len(CueResults) :
    CueResults[k].status = "verified" =>
      /\ CueResults[k].details # <<>>
      /\ \A d \in 1..Len(CueResults[k].details) :
           CueResults[k].details[d][1] = "Found"

(***************************************************************************)
(* CHDConverter: convert_file and convert_folder.  The folder is the disk: *)
(* chdman writes the .chd file into it and convert_file removes the        *)
(* sources from it.                                                        *)
(***************************************************************************)
\* str(Path(path).with_suffix(suffix)) for a path whose name has a suffix
with_suffix(path, suffix) == rsplit_dot(path) \o suffix

\* os.path.exists(path) on the disk
path_exists(path, disk) ==
  \E i \in 1..Len(disk) :
    full_path(disk[i]) = path /\ disk[i].access # "missing"

\* the disk after os.remove(path)
remove(path, disk) == SelectSeq(disk, LAMBDA f : full_path(f) # path)

\* what running chdman createcd can come to: Popen raises, or the process
\* ends with exit code 0 and the .chd file written, or with another exit
\* code and the .chd file written in part or not at all
ToolRuns ==
  { [started |-> FALSE, returncode |-> 1, output |-> FALSE],
    [started |-> TRUE, returncode |-> 0, output |-> TRUE],
    [started |-> TRUE, returncode |-> 1, output |-> FALSE],
    [started |-> TRUE, returncode |-> 1, output |-> TRUE] }

\* convert_file removing the sources whenever delete_after is set, whatever
\* the exit code
convert_file_deletes_on_failure(source_file, delete_after, disk, tool) ==
  LET source_path == full_path(source_file)
      source_ext == Lower(splitext(source_file.name))
      chd_path == with_suffix(source_path, <<".", "c", "h", "d">>)
      written == IF tool.output /\ ~path_exists(chd_path, disk)
                   THEN Append(disk, FileIn(dirname(chd_path),
                                            SubSeq(chd_path,
                                                   LastSlash(chd_path) + 1,
                                                   Len(chd_path)),
                                            "ok", <<>>))
                   ELSE disk
      bin_file == rsplit_dot(source_path) \o <<".", "b", "i", "n">>
      \* os.remove raises for a file that may not be removed
      locked(path) == \E i \in 1..Len(written) :
                        /\ full_path(written[i]) = path
                        /\ written[i].access = "denied"
      without_source == remove(source_path, written)
      deleted ==
        IF locked(source_path) THEN written
        ELSE IF source_ext = <<".", "c", "u", "e">>
                  /\ path_exists(bin_file, without_source)
                  /\ ~locked(bin_file)
          THEN remove(bin_file, without_source)
        ELSE without_source
  IN IF path_exists(chd_path, disk)
       THEN [success |-> TRUE, chd_path |-> chd_path, disk |-> disk,
             outcome |-> "exists"]
     ELSE IF ~tool.started
       THEN [success |-> FALSE, chd_path |-> None, disk |-> disk,
             outcome |-> "error"]
     ELSE IF tool.returncode = 0
       THEN [success |-> TRUE, chd_path |-> chd_path,
             disk |-> IF delete_after THEN deleted ELSE written,
             outcome |-> "zero"]
     ELSE [success |-> FALSE, chd_path |-> None, disk |-> IF delete_after THEN deleted ELSE written,
           outcome |-> "nonzero"]

\* convert_file(source_file, delete_after): success, the path of the .chd
\* file, the disk afterwards and which of the four ways out was taken
convert_file(source_file, delete_after, disk, tool) ==
  LET source_path == full_path(source_file)
      source_ext == Lower(splitext(source_file.name))
      chd_path == with_suffix(source_path, <<".", "c", "h", "d">>)
      written == IF tool.output /\ ~path_exists(chd_path, disk)
                   THEN Append(disk, FileIn(dirname(chd_path),
                                            SubSeq(chd_path,
                                                   LastSlash(chd_path) + 1,
                                                   Len(chd_path)),
                                            "ok", <<>>))
                   ELSE disk
      bin_file == rsplit_dot(source_path) \o <<".", "b", "i", "n">>
      \* os.remove raises for a file that may not be removed
      locked(path) == \E i \in 1..Len(written) :
                        /\ full_path(written[i]) = path
                        /\ written[i].access = "denied"
      without_source == remove(source_path, written)
      deleted ==
        IF locked(source_path) THEN written
        ELSE IF source_ext = <<".", "c", "u", "e">>
                  /\ path_exists(bin_file, without_source)
                  /\ ~locked(bin_file)
          THEN remove(bin_file, without_source)
        ELSE without_source
  IN IF path_exists(chd_path, disk)
       THEN [success |-> TRUE, chd_path |-> chd_path, disk |-> disk,
             outcome |-> "exists"]
     ELSE IF ~tool.started
       THEN [success |-> FALSE, chd_path |-> None, disk |-> disk,
             outcome |-> "error"]
     ELSE IF tool.returncode = 0
       THEN [success |-> TRUE, chd_path |-> chd_path,
             disk |-> IF delete_after THEN deleted ELSE written,
             outcome |-> "zero"]
     ELSE [success |-> FALSE, chd_path |-> None, disk |-> written,
           outcome |-> "nonzero"]

\* lines 227-233: the files of the folder itself that match one of the four
\* patterns, pattern by pattern
glob_sources(folder_path, disk) ==
  LET matching(suffix) ==
        SelectSeq(disk, LAMBDA f : /\ f.dir = folder_path
                                   /\ f.access # "missing"
                                   /\ EndsWith(f.name, suffix))
  IN matching(<<".", "c", "u", "e">>) \o matching(<<".", "g", "d", "i">>)
       \o matching(<<".", "c", "d", "i">>) \o matching(<<".", "i", "s", "o">>)

\* the files a folder with disc images may hold
ConvertFiles ==
  << FileIn(Root, F_Cue, "ok", Cue_Plain),
    FileIn(Root, <<"a", ".", "b", "i", "n">>, "ok", <<>>),
    FileIn(Root, <<"a", ".", "i", "s", "o">>, "ok", <<>>),
    FileIn(Root, <<"a", ".", "c", "h", "d">>, "ok", <<>>),
    FileIn(Root, <<"b", ".", "g", "d", "i">>, "denied", <<>>),
    FileIn(Root, <<"B", ".", "C", "U", "E">>, "ok", Cue_Plain),
    FileIn(Root, <<"B", ".", "b", "i", "n">>, "ok", <<>>),
     FileIn(SubDir, <<"c", ".", "c", "d", "i">>, "ok", <<>>) >>

\* a folder with some of these files
InitConvert ==
  /\ dats = AllSystems(AbsentDat)
  /\ \E present \in SUBSET (1..Len(ConvertFiles)) :
       folder = SelectSeq(ConvertFiles,
                  LAMBDA f : \E i \in present : ConvertFiles[i] = f)
  /\ cancel_check = "none"
  /\ Fresh

ConvertUnchanged ==
  UNCHANGED << answer, health, calls, threads, heap, refs, previous, dats,
               databases, cancel_check, cancel_requested, pc, rom_files,
               index, results, verified, has_header, unknown, failed, log,
               progress, verdict, polls, requested_at >>

\* convert_file(source_file, delete_after) called on its own, for any file
\* of the folder with one of the four suffixes in any case
ConvertFile ==
  /\ convert.pc = "idle"
  /\ \E i \in 1..Len(folder), delete_after \in BOOLEAN, tool \in ToolRuns :
       /\ Lower(splitext(folder[i].name))
            \in { <<".", "c", "u", "e">>, <<".", "g", "d", "i">>,
                  <<".", "c", "d", "i">>, <<".", "i", "s", "o">> }
       /\ \E call \in {convert_file(folder[i], delete_after, folder, tool)} :
            /\ convert' = [pc |-> "returned",
                           call |-> "convert_file",
                           chdman_path |-> TRUE,
                           delete_after |-> delete_after,
                           source_files |-> <<folder[i]>>,
                           index |-> 1,
                           converted |-> 0, skipped |-> 0, failed |-> 0,
                           last |-> [source_file |-> folder[i],
                                     success |-> call.success,
                                     outcome |-> call.outcome]]
            /\ folder' = call.disk
  /\ ConvertUnchanged

\* convert_folder(folder, delete_after) up to the loop: lines 220-244
StartConvert ==
  /\ convert.pc = "idle"
  /\ \E chdman_found \in BOOLEAN, delete_after \in BOOLEAN :
       LET source_files == IF chdman_found THEN glob_sources(Root, folder)
                           ELSE <<>>
       IN convert' = [pc |-> IF source_files = <<>> THEN "returned"
                             ELSE "loop",
                      call |-> "convert_folder",
                      chdman_path |-> chdman_found,
                      delete_after |-> delete_after,
                      source_files |-> source_files,
                      index |-> 1,
                      converted |-> 0, skipped |-> 0, failed |-> 0,
                      last |-> [outcome |-> "none"]]
  /\ UNCHANGED folder
  /\ ConvertUnchanged

\* one round of the loop: lines 246-274
ConvertNext ==
  /\ convert.pc = "loop"
  /\ LET source_file == convert.source_files[convert.index]
         chd_path == with_suffix(full_path(source_file),
                                 <<".", "c", "h", "d">>)
         after == IF convert.index = Len(convert.source_files)
                    THEN "returned" ELSE "loop"
     IN IF path_exists(chd_path, folder)
          THEN /\ convert' = [convert EXCEPT
                                !.pc = after,
                                !.index = convert.index + 1,
                                !.skipped = convert.skipped + 1,
                                !.last = [source_file |-> source_file,
                                          outcome |-> "skipped"]]
               /\ UNCHANGED folder
          ELSE \E tool \in ToolRuns :
               \E call \in {convert_file(source_file, convert.delete_after,
                                         folder, tool)} :
                 /\ convert' = [convert EXCEPT
                                  !.pc = after,
                                  !.index = convert.index + 1,
                                  !.converted = IF call.success
                                                  THEN convert.converted + 1
                                                  ELSE convert.converted,
                                  !.failed = IF call.success
                                               THEN convert.failed
                                               ELSE convert.failed + 1,
                                  !.last = [source_file |-> source_file,
                                            success |-> call.success,
                                            outcome |-> call.outcome]]
                 /\ folder' = call.disk
  /\ ConvertUnchanged

NextConvert ==
  \/ ConvertFile
  \/ StartConvert
  \/ ConvertNext

SpecConvert == InitConvert /\ [][NextConvert]_vars

(***************************************************************************)
(* Properties of the conversion                                            *)
(***************************************************************************)
\* the files of the folder that the step takes away
Removed ==
  { i \in 1..Len(folder) : \A j \in 1..Len(folder') : folder'[j] # folder[i] }

\* the file is the one with the name of the source and the suffix .bin, the
\* source being a .cue file
SiblingBin(f, source_file) ==
  /\ Lower(splitext(source_file.name)) = <<".", "c", "u", "e">>
  /\ full_path(f) = rsplit_dot(full_path(source_file)) \o <<".", "b", "i", "n">>

\* the files of the folder itself with one of the four suffixes
SourcesIn(disk) ==
  { i \in 1..Len(disk) :
      /\ disk[i].dir = Root
      /\ \E suffix \in { <<".", "c", "u", "e">>, <<".", "g", "d", "i">>,
                         <<".", "c", "d", "i">>, <<".", "i", "s", "o">> } :
           EndsWith(disk[i].name, suffix) }

\* C30: a step takes files away from the folder only when delete_after is
\* set and chdman ended with exit code 0, and then only the source and, for
\* a .cue source, the .bin file of the same name; a step in which the
\* conversion failed, or ended early or was skipped because the .chd file
\* exists, takes no file away; and the three counts of convert_folder add
\* up to the number of source files found, which, chdman being there, is
\* the number of files of the folder with one of the four suffixes
C30_SourcesKeptUnlessConverted ==
  /\ [](convert.pc = "returned" /\ convert.call = "convert_folder" =>
          convert.converted + convert.skipped + convert.failed
            = Len(convert.source_files))
  /\ [][ /\ Removed # {} =>
              /\ convert'.last.outcome = "zero"
              /\ convert'.delete_after
              /\ \A i \in Removed :
                   \/ folder[i] = convert'.last.source_file
                   \/ SiblingBin(folder[i], convert'.last.source_file)
         /\ convert'.last.outcome \in {"exists", "skipped", "nonzero", "error"}
              => Removed = {}
         /\ convert.pc = "idle" /\ convert'.call = "convert_folder"
              /\ convert'.chdman_path =>
              Len(convert'.source_files) = Cardinality(SourcesIn(folder)) ]_vars

C30_Witness ==
  /\ convert.pc = "returned"
  /\ convert.call = "convert_folder"
  /\ convert.delete_after
  /\ convert.converted = 1
  /\ convert.skipped = 1
  /\ convert.failed = 1
  /\ \A i \in 1..Len(folder) :
       folder[i].name \notin {F_Cue, <<"a", ".", "b", "i", "n">>}
  /\ \E i \in 1..Len(folder) : folder[i].name = <<"a", ".", "i", "s", "o">>

=============================================================================
